---- MODULE Spec2Model ----
(***************************************************************************)
(* Model of the kube-mcp operator: the four kopf reconcilers (MCPServer,   *)
(* MCPTool, MCPPrompt, MCPResource), the cross-resource trigger and the    *)
(* store adapter they share.                                               *)
(*                                                                         *)
(* Strings are sequences of tokens.  A token is either one of the          *)
(* characters the code inspects (":", "/", "{", "}", " ") or an opaque     *)
(* run of other characters ("svc", "http", ".svc.cluster.local"), so that  *)
(* concatenation, str.replace, str.strip and re.findall are computed the   *)
(* way Python computes them.  An optional compound value is a set with at  *)
(* most one element ({} is Python's None); an absent string is None.       *)
(***************************************************************************)
EXTENDS Integers, Sequences, FiniteSets, TLC

VARIABLES
    objs,      \* custom resources in the store: key -> [labels, spec, status, deleting]
    h,         \* one handler (kopf worker) per custom resource: key -> handler record
    services,  \* plain Services in the store: set of [ns, name]
    children,  \* objects written by MCPServer passes: child key -> record
    trail      \* observation of the last pass of each server (not read by the operator)

vars == <<objs, h, services, children, trail>>

(***************************************************************************)
(* Bounds of the model.                                                    *)
(***************************************************************************)
\* a generated template is the concatenation of at most this many pieces
MaxPieces == 3

\* a generated service path is "/" followed by at most this many pieces
MaxPathPieces == 4

(***************************************************************************)
(* Python values.                                                          *)
(***************************************************************************)
None == "None"

Some(x) == {x}

IsSome(o) == o # {}

The(o) == CHOOSE x \in o : TRUE

\* len(x or []) for an optional list
LenOrEmpty(o) == IF o = {} THEN 0 ELSE Len(The(o))

\* bool(x) for an optional list: None and [] are both falsy
TruthyList(o) == o # {} /\ Len(The(o)) > 0

RECURSIVE SeqToSet(_)
SeqToSet(s) == IF s = <<>> THEN {} ELSE {Head(s)} \cup SeqToSet(Tail(s))

StartsWith(s, p) == Len(s) >= Len(p) /\ SubSeq(s, 1, Len(p)) = p

\* s[i:].startswith(p), positions counted from 1
OccursAt(s, i, p) == i + Len(p) - 1 <= Len(s) /\ SubSeq(s, i, i + Len(p) - 1) = p

\* the characters of s from position i on, with str.replace applied
RECURSIVE ReplaceFrom(_, _, _, _)
ReplaceFrom(s, i, old, new) ==
    IF i > Len(s) THEN <<>>
    ELSE IF OccursAt(s, i, old)
         THEN new \o ReplaceFrom(s, i + Len(old), old, new)
         ELSE <<s[i]>> \o ReplaceFrom(s, i + 1, old, new)

\* str.replace(old, new): leftmost, non-overlapping, every occurrence
\* (the receiver is evaluated once, as Python evaluates it)
Replace(s, old, new) == The({ReplaceFrom(v, 1, old, new) : v \in {s}})

\* old in s
Contains(s, p) == \E i \in 1..Len(s) : OccursAt(s, i, p)

(***************************************************************************)
(* Keys of the store.                                                      *)
(***************************************************************************)
Key(kind, ns, name) == [kind |-> kind, ns |-> ns, name |-> name]

KeysOf(kind) == {k \in DOMAIN objs : k.kind = kind}

Svc(ns, name) == [ns |-> ns, name |-> name]

\* a ConfigMap name that does not depend on the server
ConfigMapNameShared(name) == <<"mcp-server-", "config">>

ConfigMapName(name) == <<"mcp-server-", name, "-config">>

ChildName(name) == <<"mcp-server-", name>>

Put(f, k, v) == [x \in DOMAIN f \cup {k} |-> IF x = k THEN v ELSE f[x]]

Drop(f, k) == [x \in DOMAIN f \ {k} |-> f[x]]

(***************************************************************************)
(* Resource Store Adapter (utils/k8s_client.py).                           *)
(***************************************************************************)
\* get_service: the Service, or None on 404
get_service(name, ns) == Svc(ns, name) \in services

\* get_service_endpoint: None if the Service is absent, else the cluster-DNS URL
get_service_endpoint(name, ns, port) ==
    IF ~get_service(name, ns) THEN {}
    ELSE Some(<<"http", ":", "/", "/", name, ".", ns, ".svc.cluster.local", ":",
               ToString(port)>>)

\* f"{x}" of an optional string
Fmt(o) == IF o = {} THEN <<None>> ELSE The(o)

\* sep.join(parts), parts and sep being strings
RECURSIVE JoinFrom(_, _, _)
JoinFrom(parts, i, sep) ==
    IF i > Len(parts) THEN <<>>
    ELSE IF i = Len(parts) THEN parts[i]
    ELSE parts[i] \o sep \o JoinFrom(parts, i + 1, sep)

Join(parts, sep) == JoinFrom(parts, 1, sep)

\* ','.join(values), each value one token
JoinValues(values) == Join([i \in 1..Len(values) |-> <<values[i]>>], <<",">>)

\* the part appended for one matchExpressions entry (<<>>: none, for an
\* operator that is none of the four); an In/NotIn entry whose values is
\* None has no part: ','.join(None) raises TypeError
ExprFragment(e) ==
    CASE e.operator = "In" ->
            IF e.values = {} THEN {}
            ELSE Some(<<e.key, " in (">> \o JoinValues(The(e.values)) \o <<")">>)
      [] e.operator = "NotIn" ->
            IF e.values = {} THEN {}
            ELSE Some(<<e.key, " notin (">> \o JoinValues(The(e.values)) \o <<")">>)
      [] e.operator = "Exists" -> Some(<<e.key>>)
      [] e.operator = "DoesNotExist" -> Some(<<"!", e.key>>)
      [] OTHER -> Some(<<>>)

\* the parts of the matchExpressions loop, in order; {} when the loop raises
RECURSIVE ExprFragments(_)
ExprFragments(es) ==
    IF es = <<>> THEN Some(<<>>)
    ELSE LET f == ExprFragment(Head(es))
             r == ExprFragments(Tail(es))
         IN  IF f = {} \/ r = {} THEN {}
             ELSE IF The(f) = <<>> THEN r ELSE Some(<<The(f)>> \o The(r))

\* a variant that renders the matchLabels entries and forgets the expressions
_build_label_selector_string_labels_only(selector) ==
    LET match_labels == IF selector.matchLabels = {} THEN <<>> ELSE The(selector.matchLabels)
    IN  Some(Join([i \in 1..Len(match_labels) |->
                      <<match_labels[i][1], "=", match_labels[i][2]>>], <<",">>))

\* _build_label_selector_string: ",".join(parts), the matchLabels parts
\* first; {} when building raises
_build_label_selector_string(selector) ==
    LET match_labels == IF selector.matchLabels = {} THEN <<>> ELSE The(selector.matchLabels)
        match_expressions ==
            IF selector.matchExpressions = {} THEN <<>> ELSE The(selector.matchExpressions)
        labels == [i \in 1..Len(match_labels) |->
                      <<match_labels[i][1], "=", match_labels[i][2]>>]
        exprs  == ExprFragments(match_expressions)
    IN  IF exprs = {} THEN {} ELSE Some(Join(labels \o The(exprs), <<",">>))

\* the store's reading of a selector string: its clauses, split at the
\* commas outside parentheses; the empty string has no clause
RECURSIVE ClausesFrom(_, _, _, _)
ClausesFrom(s, i, cur, inside) ==
    IF i > Len(s) THEN (IF cur = <<>> THEN <<>> ELSE <<cur>>)
    ELSE IF s[i] = "," /\ ~inside
    THEN <<cur>> \o ClausesFrom(s, i + 1, <<>>, FALSE)
    ELSE ClausesFrom(s, i + 1, Append(cur, s[i]),
                     (inside \/ s[i] \in {" in (", " notin ("}) /\ s[i] # ")")

Clauses(s) == ClausesFrom(s, 1, <<>>, FALSE)

\* the store's evaluation of one fragment against an object's labels
\* (labels: set of <<key, value>>)
FragmentHolds(labels, f) ==
    LET HasKey(k) == \E l \in labels : l[1] = k
        ValueIn(k, vs) == \E l \in labels : l[1] = k /\ l[2] \in vs
    IN  CASE Len(f) = 1 -> HasKey(f[1])
          [] Len(f) = 2 -> ~HasKey(f[2])
          [] f[2] = "=" -> <<f[1], f[3]>> \in labels
          [] f[2] = " in (" -> ValueIn(f[1], SeqToSet(SubSeq(f, 3, Len(f) - 1)) \ {","})
          [] f[2] = " notin (" -> ~ValueIn(f[1], SeqToSet(SubSeq(f, 3, Len(f) - 1)) \ {","})
          [] OTHER -> FALSE

\* the order in which the store returns the items of a list call (by name)
NameOrder == <<"A", "B", "P", "R", "S", "T", "U">>

RECURSIVE ListFrom(_, _, _, _)
ListFrom(names, kind, ns, frags) ==
    IF names = <<>> THEN <<>>
    ELSE LET k == Key(kind, ns, Head(names))
             rest == ListFrom(Tail(names), kind, ns, frags)
         IN  IF k \in DOMAIN objs
                /\ \A i \in 1..Len(frags) : FragmentHolds(objs[k].labels, frags[i])
             THEN <<k>> \o rest ELSE rest

\* list_by_label_selector: the matching objects of one kind in one namespace
list_by_label_selector(plural, namespace, label_selector) ==
    ListFrom(NameOrder, plural, namespace,
             Clauses(The(_build_label_selector_string(label_selector))))

\* the status codes a list call is answered with
ListCodes == {200, 401, 403, 404, 500}

\* list_namespaced_custom_object: the store's answer to one list call, the
\* items under 200, an ApiException with the code otherwise
list_namespaced_custom_object(plural, namespace, selector_str, code) ==
    IF code = 200
    THEN [status |-> 200, items |-> ListFrom(NameOrder, plural, namespace,
                                             Clauses(selector_str))]
    ELSE [status |-> code, items |-> <<>>]

\* a list that takes only 404 for an empty store and re-raises the rest
list_by_label_selector_reraising(plural, namespace, label_selector, code) ==
    LET res == list_namespaced_custom_object(
                   plural, namespace, The(_build_label_selector_string(label_selector)), code)
    IN  IF res.status = 200 THEN Some(res.items)
        ELSE IF res.status = 404 THEN Some(<<>>) ELSE {}

\* list_by_label_selector against a store that answers with code:
\* Some(the list returned), {} when the call raises
list_by_label_selector_answered(plural, namespace, label_selector, code) ==
    LET res == list_namespaced_custom_object(
                   plural, namespace, The(_build_label_selector_string(label_selector)), code)
    IN  IF res.status = 200 THEN Some(res.items) ELSE Some(<<>>)

\* label_selector={}: a dict with neither key
EmptySelector == [matchLabels |-> {}, matchExpressions |-> {}]

(***************************************************************************)
(* Spec Validation Layer (models/crds.py).                                 *)
(***************************************************************************)
NoPath == <<>>

\* Field(pattern=r"^/.*$")
PathOk(p) == p # <<>> /\ Head(p) = "/"

\* ServiceReference: name required, port 1..65535, path defaults to "/"
ServiceReferenceValid(ref) ==
    /\ ref.name # None
    /\ ref.port \in 1..65535
    /\ ref.path = NoPath \/ PathOk(ref.path)

\* ToolEntry: name and path required
ToolEntryValid(e) == e.name # None /\ PathOk(e.path)

\* a validator that rejects a spec with neither, and accepts one with both
validate_tool_mode_lax(spec) == ~(spec.name = None /\ ~TruthyList(spec.tools))

\* MCPToolSpec.validate_tool_mode: raises when both or neither are truthy
validate_tool_mode(spec) ==
    /\ ~(spec.name # None /\ TruthyList(spec.tools))
    /\ ~(spec.name = None /\ ~TruthyList(spec.tools))

\* MCPToolSpec(**spec) does not raise
MCPToolSpecValid(spec) ==
    /\ ServiceReferenceValid(spec.service)
    /\ spec.tools # {} => \A i \in 1..Len(The(spec.tools)) : ToolEntryValid(The(spec.tools)[i])
    /\ validate_tool_mode(spec)

\* the parsed model: defaults filled in
MCPToolSpecParsed(spec) ==
    [spec EXCEPT !.service.path = IF @ = NoPath THEN <<"/">> ELSE @]

\* MCPServerSpec(**spec) does not raise
MCPServerSpecValid(spec) ==
    /\ spec.replicas \in 1..10
    /\ spec.redis # None
    /\ spec.toolSelector # {}

\* _selector_to_dict: a key is set only when the model's field is truthy
\* (neither None nor empty)
_selector_to_dict(selector) ==
    [matchLabels |-> IF TruthyList(selector.matchLabels) THEN selector.matchLabels ELSE {},
     matchExpressions |->
        IF TruthyList(selector.matchExpressions) THEN selector.matchExpressions ELSE {}]

(***************************************************************************)
(* Handlers.  kopf runs one handler at a time per object; a handler is a   *)
(* sequence of steps, one per store call, and the steps of handlers of     *)
(* different objects (and the actions of users and of the cluster)         *)
(* interleave.  A change of spec, labels or annotations of an object       *)
(* posts an event for it (pending); the status patch is applied when the   *)
(* handler returns or raises.                                              *)
(***************************************************************************)
NoLoc == [tools |-> <<>>, prompts |-> <<>>, resources |-> <<>>,
          tools_data |-> <<>>, prompts_data |-> <<>>, resources_data |-> <<>>,
          wrote |-> <<>>, ready_replicas |-> 0]

NewHandler == [pending |-> TRUE, pc |-> "idle", mode |-> "reconcile",
               spec |-> {}, patch |-> {}, todo |-> <<>>, triggered |-> FALSE,
               outcome |-> "none", delDone |-> FALSE, lookups |-> <<>>,
               missed |-> {}, loc |-> NoLoc]

\* _create_condition, without lastTransitionTime and message
_create_condition(type, status, reason) ==
    [type |-> type, status |-> status, reason |-> reason]

\* the handler returned (or raised): kopf applies the status patch to the
\* object if it is still in the store; the locals of the call are gone
Returned(hk, outcome) ==
    [hk EXCEPT !.pc = "idle", !.outcome = outcome, !.todo = <<>>,
               !.spec = {}, !.loc = NoLoc,
               !.delDone = (hk.mode = "delete" /\ outcome = "ok")]

ApplyPatch(k, patch) ==
    IF k \in DOMAIN objs /\ patch # {}
    THEN [objs EXCEPT ![k].status = patch]
    ELSE objs

\* the handler picks up the pending event
Begin(k, mode) ==
    [h[k] EXCEPT !.pending = FALSE, !.mode = mode, !.spec = Some(objs[k].spec),
                 !.patch = {}, !.todo = <<>>, !.triggered = FALSE,
                 !.outcome = "none", !.lookups = <<>>, !.missed = {},
                 !.loc = NoLoc]

Idle(k) == k \in DOMAIN objs /\ h[k].pc = "idle"

\* what the trail keeps for a server: the last completed pass, and
\* whether anything a pass reads (the objects it lists, the Services, the
\* Deployment's status) changed since the last pass began (sinceStart) or
\* between the starts of the last two passes (beforeStart)
NewTrail == [last |-> {}, sinceStart |-> FALSE, beforeStart |-> FALSE]

Disturbed(tr) == [k \in DOMAIN tr |-> [tr[k] EXCEPT !.sinceStart = TRUE]]

(***************************************************************************)
(* Cross-Resource Trigger (_trigger_mcpserver_reconciliation, the same     *)
(* code in the three controllers).                                         *)
(***************************************************************************)
\* list the MCPServers of the namespace; return at once if there are none
TriggerList(k) ==
    /\ k \in DOMAIN h
    /\ h[k].pc = "trigger"
    /\ LET servers == list_by_label_selector("MCPServer", k.ns, EmptySelector)
           hk == [h[k] EXCEPT !.triggered = TRUE]
       IN  IF servers = <<>>
           THEN /\ h' = [h EXCEPT ![k] = Returned(hk, "ok")]
                /\ objs' = ApplyPatch(k, hk.patch)
           ELSE /\ h' = [h EXCEPT ![k] = [hk EXCEPT !.pc = "touch", !.todo = servers]]
                /\ objs' = objs
    /\ UNCHANGED <<services, children, trail>>

\* a trigger that gives up, raising, at the first patch that fails
TriggerTouchAborting(k) ==
    /\ k \in DOMAIN h
    /\ h[k].pc = "touch"
    /\ LET s == Head(h[k].todo)
           rest == Tail(h[k].todo)
       IN  IF s \notin DOMAIN objs
           THEN /\ h' = [h EXCEPT ![k] = [Returned(h[k], "raised") EXCEPT !.pending = TRUE]]
                /\ objs' = ApplyPatch(k, h[k].patch)
           ELSE IF rest = <<>>
           THEN /\ h' = [h EXCEPT ![k] = Returned(h[k], "ok"), ![s].pending = TRUE]
                /\ objs' = ApplyPatch(k, h[k].patch)
           ELSE /\ h' = [h EXCEPT ![k].todo = rest, ![s].pending = TRUE]
                /\ objs' = objs
    /\ UNCHANGED <<services, children, trail>>

\* a trigger whose patch reaches every object of the store
TouchedAll(hh, s) == [o \in DOMAIN hh |-> [hh[o] EXCEPT !.pending = TRUE]]

\* a trigger whose annotation patch posts no event for the server
TouchedLost(hh, s) == hh

\* patch the annotation of the next server of the list: the change posts an
\* update event for that server; a failed patch (the server is gone) is
\* logged and skipped
Touched(hh, s) ==
    IF s \in DOMAIN objs THEN [hh EXCEPT ![s].pending = TRUE] ELSE hh

\* logger.warning: the handler's log names the server whose patch failed
Warned(hh, k, s) ==
    IF s \in DOMAIN objs THEN hh ELSE [hh EXCEPT ![k].missed = @ \cup {s}]

TriggerTouch(k) ==
    /\ k \in DOMAIN h
    /\ h[k].pc = "touch"
    /\ LET s == Head(h[k].todo)
           rest == Tail(h[k].todo)
       IN  IF rest = <<>>
           THEN /\ h' = Warned(Touched([h EXCEPT ![k] = Returned(h[k], "ok")], s), k, s)
                /\ objs' = ApplyPatch(k, h[k].patch)
           ELSE /\ h' = Warned(Touched([h EXCEPT ![k].todo = rest], s), k, s)
                /\ objs' = objs
    /\ UNCHANGED <<services, children, trail>>

(***************************************************************************)
(* MCPTool reconciler (controllers/mcptool_controller.py).                 *)
(***************************************************************************)
\* while "//" in s: s = s.replace("//", "/")
RECURSIVE CollapseSlashes(_)
CollapseSlashes(s) ==
    The({IF Contains(v, <<"/", "/">>)
         THEN CollapseSlashes(Replace(v, <<"/", "/">>, <<"/">>))
         ELSE v : v \in {s}})

\* single-tool mode: f"{base_endpoint}{path}" with the double slashes
\* cleaned up around a placeholder for "://"
SingleToolEndpoint(base, path) ==
    Replace(CollapseSlashes(Replace(Fmt(base) \o path, <<":", "/", "/">>, <<"___PROTO___">>)),
            <<"___PROTO___">>, <<":", "/", "/">>)

\* multi-tool mode: base_endpoint or ""
MultiToolEndpoint(base) == IF base = {} THEN <<>> ELSE The(base)

\* a lookup in the namespace of the MCPTool, whatever the reference names
ToolServiceNamespaceOwn(tool_spec, namespace) == namespace

ToolServiceNamespace(tool_spec, namespace) ==
    IF tool_spec.service.namespace # None THEN tool_spec.service.namespace ELSE namespace

ToolNotReady ==
    [ready |-> FALSE, resolvedEndpoint |-> <<None>>,
     conditions |-> <<_create_condition("Ready", "False", "ServiceNotFound")>>]

ToolReady(resolved_endpoint) ==
    [ready |-> TRUE, resolvedEndpoint |-> resolved_endpoint,
     conditions |-> <<_create_condition("Ready", "True", "ServiceResolved")>>]

\* a pass that goes on to the trigger when the Service is absent
ToolGetServiceTriggering(k) ==
    /\ k.kind = "MCPTool" /\ Idle(k) /\ h[k].pending /\ ~objs[k].deleting
    /\ LET hk == Begin(k, "reconcile")
           spec == objs[k].spec
           tool_spec == MCPToolSpecParsed(spec)
           service_namespace == ToolServiceNamespace(tool_spec, k.ns)
           looked == [hk EXCEPT !.lookups = <<Svc(service_namespace, tool_spec.service.name)>>]
       IN  IF ~MCPToolSpecValid(spec)
           THEN h' = [h EXCEPT ![k] = [Returned(hk, "raised") EXCEPT !.pending = TRUE]]
           ELSE IF ~get_service(tool_spec.service.name, service_namespace)
           THEN h' = [h EXCEPT ![k] = [looked EXCEPT !.pc = "trigger",
                                                     !.patch = Some(ToolNotReady)]]
           ELSE h' = [h EXCEPT ![k] = [looked EXCEPT !.pc = "resolve"]]
    /\ UNCHANGED <<objs, services, children, trail>>

\* reconcile_mcptool up to the Service lookup: MCPToolSpec(**spec) raises on
\* an invalid spec (kopf retries the handler later); an absent Service ends
\* the pass with the NotReady status and no trigger
ToolGetService(k) ==
    /\ k.kind = "MCPTool" /\ Idle(k) /\ h[k].pending /\ ~objs[k].deleting
    /\ LET hk == Begin(k, "reconcile")
           spec == objs[k].spec
           tool_spec == MCPToolSpecParsed(spec)
           service_namespace == ToolServiceNamespace(tool_spec, k.ns)
       IN  IF ~MCPToolSpecValid(spec)
           THEN /\ h' = [h EXCEPT ![k] = [Returned(hk, "raised") EXCEPT !.pending = TRUE]]
                /\ objs' = objs
           ELSE IF ~get_service(tool_spec.service.name, service_namespace)
           THEN /\ h' = [h EXCEPT ![k] =
                            Returned([hk EXCEPT !.patch = Some(ToolNotReady),
                                                !.lookups = <<Svc(service_namespace,
                                                                  tool_spec.service.name)>>],
                                     "ok")]
                /\ objs' = ApplyPatch(k, Some(ToolNotReady))
           ELSE /\ h' = [h EXCEPT ![k] =
                            [hk EXCEPT !.pc = "resolve",
                                       !.lookups = <<Svc(service_namespace,
                                                         tool_spec.service.name)>>]]
                /\ objs' = objs
    /\ UNCHANGED <<services, children, trail>>

\* the second read of the Service (get_service_endpoint) and the status
ToolResolve(k) ==
    /\ k \in DOMAIN h
    /\ k.kind = "MCPTool" /\ h[k].pc = "resolve"
    /\ LET tool_spec == MCPToolSpecParsed(The(h[k].spec))
           service_namespace == ToolServiceNamespace(tool_spec, k.ns)
           base_endpoint == get_service_endpoint(tool_spec.service.name, service_namespace,
                                                 tool_spec.service.port)
           resolved_endpoint ==
               IF TruthyList(tool_spec.tools)
               THEN MultiToolEndpoint(base_endpoint)
               ELSE SingleToolEndpoint(base_endpoint, tool_spec.service.path)
       IN  h' = [h EXCEPT ![k].pc = "trigger",
                          ![k].patch = Some(ToolReady(resolved_endpoint)),
                          ![k].lookups = Append(@, Svc(service_namespace,
                                                       tool_spec.service.name))]
    /\ UNCHANGED <<objs, services, children, trail>>

\* delete_mcptool, delete_mcpprompt, delete_mcpresource: the trigger only
DeleteHandler(k) ==
    /\ k.kind \in {"MCPTool", "MCPPrompt", "MCPResource"}
    /\ Idle(k) /\ objs[k].deleting /\ ~h[k].delDone
    /\ h' = [h EXCEPT ![k] = [Begin(k, "delete") EXCEPT !.pc = "trigger"]]
    /\ UNCHANGED <<objs, services, children, trail>>

\* kopf removes its finalizer once the delete handler has succeeded, and the
\* store then removes the object
Removed(k) ==
    /\ Idle(k) /\ objs[k].deleting /\ h[k].delDone
    /\ objs' = Drop(objs, k)
    /\ h' = Drop(h, k)
    /\ trail' = Disturbed(trail)
    /\ UNCHANGED <<services, children>>

(***************************************************************************)
(* MCPServer reconciler (controllers/mcpserver_controller.py).             *)
(***************************************************************************)
\* dict.get(key) on a dict held as a function from its keys
DictGet(d, key) == IF key \in DOMAIN d THEN Some(d[key]) ELSE {}

\* an entry resolved whether or not the Service exists
_resolve_tool_entry_unchecked(tool_name, service_ref, namespace) ==
    LET svc_path == IF service_ref.path = NoPath THEN <<"/">> ELSE service_ref.path
        svc_ns == IF service_ref.namespace # None THEN service_ref.namespace ELSE namespace
    IN  Some([name |-> tool_name,
              endpoint |-> <<"http", ":", "/", "/", service_ref.name, ".", svc_ns,
                             ".svc.cluster.local", ":", ToString(service_ref.port)>>
                           \o svc_path])

\* an entry resolved without the path of the service reference
_resolve_tool_entry_bare(tool_name, service_ref, namespace) ==
    LET svc_ns == IF service_ref.namespace # None THEN service_ref.namespace ELSE namespace
        base_endpoint == get_service_endpoint(service_ref.name, svc_ns, service_ref.port)
    IN  IF service_ref.name # None /\ service_ref.port # 0 /\ base_endpoint # {}
        THEN Some([name |-> tool_name, endpoint |-> The(base_endpoint) \o <<"/">>])
        ELSE {}

\* _resolve_tool_entry: None unless the name and the port of the service
\* reference are truthy and the Service exists
_resolve_tool_entry(tool_name, service_ref, namespace) ==
    LET svc_path == IF service_ref.path = NoPath THEN <<"/">> ELSE service_ref.path
        svc_ns == IF service_ref.namespace # None THEN service_ref.namespace ELSE namespace
        base_endpoint == get_service_endpoint(service_ref.name, svc_ns, service_ref.port)
    IN  IF service_ref.name # None /\ service_ref.port # 0 /\ base_endpoint # {}
        THEN Some([name |-> tool_name, endpoint |-> The(base_endpoint) \o svc_path])
        ELSE {}

\* the entries of one MCPTool object: one per tools[] entry in multi-tool
\* mode (the shared service with the entry's path), else one
RECURSIVE MultiEntries(_, _, _)
MultiEntries(entries, service_ref, namespace) ==
    IF entries = <<>> THEN <<>>
    ELSE LET entry == _resolve_tool_entry(Head(entries).name,
                                          [service_ref EXCEPT !.path = Head(entries).path],
                                          namespace)
             rest == MultiEntries(Tail(entries), service_ref, namespace)
         IN  IF entry # {} THEN <<The(entry)>> \o rest ELSE rest

ToolEntries(tool_spec, namespace) ==
    IF TruthyList(tool_spec.tools)
    THEN MultiEntries(The(tool_spec.tools), tool_spec.service, namespace)
    ELSE LET entry == _resolve_tool_entry(tool_spec.name, tool_spec.service, namespace)
         IN  IF entry # {} THEN <<The(entry)>> ELSE <<>>

RECURSIVE ToolsData(_, _)
ToolsData(tools, namespace) ==
    IF tools = <<>> THEN <<>>
    ELSE ToolEntries(Head(tools), namespace) \o ToolsData(Tail(tools), namespace)

PromptsData(prompts) ==
    [i \in 1..Len(prompts) |->
        [name |-> prompts[i].name, template |-> prompts[i].template,
         variables |-> prompts[i].variables]]

ResourcesData(resources) ==
    [i \in 1..Len(resources) |->
        [name |-> resources[i].name, content |-> resources[i].content,
         operations |-> resources[i].operations]]

\* body["metadata"]["uid"]: the uid the store gave the object when it was
\* created (no scenario creates a server twice, so a key has one uid)
metadata_uid(k) == <<"uid", k.ns, k.name>>

\* an owner reference built from a body that carries no uid
OwnerRefWithoutUid(k) ==
    [kind |-> "MCPServer", name |-> k.name, uid |-> <<>>, controller |-> TRUE]

\* owner_ref, and the reference kopf.adopt sets, without apiVersion and
\* blockOwnerDeletion
OwnerRef(k) ==
    [kind |-> "MCPServer", name |-> k.name, uid |-> metadata_uid(k), controller |-> TRUE]

\* the bodies of those listed objects only whose own status reports success
BodiesReady(keys) ==
    LET Ok(k) == /\ objs[k].status # {}
                 /\ IF k.kind = "MCPPrompt" THEN The(objs[k].status).validated
                    ELSE The(objs[k].status).ready
        kept == SelectSeq(keys, Ok)
    IN  [i \in 1..Len(kept) |-> objs[kept[i]].spec]

\* the bodies of the listed objects, as the list call returned them
Bodies(keys) == [i \in 1..Len(keys) |-> objs[keys[i]].spec]

ServerSelector(k) == _selector_to_dict(The(The(h[k].spec).toolSelector))

Note(hk, what) == [hk EXCEPT !.loc.wrote = Append(@, what)]

\* the pass up to the first list call: MCPServerSpec(**spec), the selector,
\* the MCPTools matching it
ServerListTools(k) ==
    /\ k.kind = "MCPServer" /\ Idle(k) /\ h[k].pending /\ ~objs[k].deleting
    /\ LET hk == Begin(k, "reconcile")
           spec == objs[k].spec
       IN  IF ~MCPServerSpecValid(spec)
              \/ _build_label_selector_string(_selector_to_dict(The(spec.toolSelector))) = {}
           THEN h' = [h EXCEPT ![k] = [Returned(hk, "raised") EXCEPT !.pending = TRUE]]
           ELSE h' = [h EXCEPT ![k] =
                        [hk EXCEPT !.pc = "list_prompts",
                                   !.loc.tools = Bodies(list_by_label_selector(
                                        "MCPTool", k.ns,
                                        _selector_to_dict(The(spec.toolSelector))))]]
    /\ trail' = IF MCPServerSpecValid(objs[k].spec)
                    /\ _build_label_selector_string(
                           _selector_to_dict(The(objs[k].spec.toolSelector))) # {}
                 THEN [trail EXCEPT ![k].beforeStart = trail[k].sinceStart,
                                    ![k].sinceStart = FALSE]
                 ELSE trail
    /\ UNCHANGED <<objs, services, children>>

ServerListPrompts(k) ==
    /\ k \in DOMAIN h
    /\ k.kind = "MCPServer" /\ h[k].pc = "list_prompts"
    /\ h' = [h EXCEPT ![k].pc = "list_resources",
                      ![k].loc.prompts = Bodies(list_by_label_selector(
                            "MCPPrompt", k.ns, ServerSelector(k)))]
    /\ UNCHANGED <<objs, services, children, trail>>

ServerListResources(k) ==
    /\ k \in DOMAIN h
    /\ k.kind = "MCPServer" /\ h[k].pc = "list_resources"
    /\ h' = [h EXCEPT ![k].pc = "aggregate",
                      ![k].loc.resources = Bodies(list_by_label_selector(
                            "MCPResource", k.ns, ServerSelector(k)))]
    /\ UNCHANGED <<objs, services, children, trail>>

\* a call of the store and the status it answered with
Call(call, status) == [call |-> call, status |-> status]

\* The three list calls against a store that may answer with an error; the
\* answers of the pass are kept in lookups.
ServerListToolsAnswered(k, code) ==
    /\ k.kind = "MCPServer" /\ Idle(k) /\ h[k].pending /\ ~objs[k].deleting
    /\ LET hk == Begin(k, "reconcile")
           spec == objs[k].spec
           selector_dict == _selector_to_dict(The(spec.toolSelector))
           listed == list_by_label_selector_answered("MCPTool", k.ns, selector_dict, code)
       IN  IF ~MCPServerSpecValid(spec) \/ _build_label_selector_string(selector_dict) = {}
              \/ listed = {}
           THEN /\ h' = [h EXCEPT ![k] = [Returned(hk, "raised") EXCEPT !.pending = TRUE]]
                /\ trail' = trail
           ELSE /\ h' = [h EXCEPT ![k] =
                           [hk EXCEPT !.pc = "list_prompts",
                                      !.lookups = <<Call("mcptools", code)>>,
                                      !.loc.tools = Bodies(The(listed))]]
                /\ trail' = [trail EXCEPT ![k].beforeStart = trail[k].sinceStart,
                                          ![k].sinceStart = FALSE]
    /\ UNCHANGED <<objs, services, children>>

ServerListPromptsAnswered(k, code) ==
    /\ k \in DOMAIN h
    /\ k.kind = "MCPServer" /\ h[k].pc = "list_prompts"
    /\ LET listed == list_by_label_selector_answered("MCPPrompt", k.ns, ServerSelector(k),
                                                     code)
       IN  /\ h' = [h EXCEPT ![k] =
                      IF listed = {}
                      THEN [Returned(h[k], "raised") EXCEPT !.pending = TRUE]
                      ELSE [h[k] EXCEPT !.pc = "list_resources",
                                        !.lookups = Append(@, Call("mcpprompts", code)),
                                        !.loc.prompts = Bodies(The(listed))]]
           /\ objs' = IF listed = {} THEN ApplyPatch(k, h[k].patch) ELSE objs
    /\ UNCHANGED <<services, children, trail>>

ServerListResourcesAnswered(k, code) ==
    /\ k \in DOMAIN h
    /\ k.kind = "MCPServer" /\ h[k].pc = "list_resources"
    /\ LET listed == list_by_label_selector_answered("MCPResource", k.ns, ServerSelector(k),
                                                     code)
       IN  /\ h' = [h EXCEPT ![k] =
                      IF listed = {}
                      THEN [Returned(h[k], "raised") EXCEPT !.pending = TRUE]
                      ELSE [h[k] EXCEPT !.pc = "aggregate",
                                        !.lookups = Append(@, Call("mcpresources", code)),
                                        !.loc.resources = Bodies(The(listed))]]
           /\ objs' = IF listed = {} THEN ApplyPatch(k, h[k].patch) ELSE objs
    /\ UNCHANGED <<services, children, trail>>

\* the three JSON documents; every tool entry costs one Service lookup
\* an aggregation that puts the counts in the status patch as it goes
ServerAggregateCounting(k) ==
    /\ k \in DOMAIN h
    /\ k.kind = "MCPServer" /\ h[k].pc = "aggregate"
    /\ h' = [h EXCEPT ![k].pc = "configmap",
                      ![k].loc.tools_data = ToolsData(h[k].loc.tools, k.ns),
                      ![k].loc.prompts_data = PromptsData(h[k].loc.prompts),
                      ![k].loc.resources_data = ResourcesData(h[k].loc.resources),
                      ![k].patch = Some([toolCount |-> Len(ToolsData(h[k].loc.tools, k.ns)),
                                         promptCount |-> Len(h[k].loc.prompts),
                                         resourceCount |-> Len(h[k].loc.resources)])]
    /\ UNCHANGED <<objs, services, children, trail>>

ServerAggregate(k) ==
    /\ k \in DOMAIN h
    /\ k.kind = "MCPServer" /\ h[k].pc = "aggregate"
    /\ h' = [h EXCEPT ![k].pc = "configmap",
                      ![k].loc.tools_data = ToolsData(h[k].loc.tools, k.ns),
                      ![k].loc.prompts_data = PromptsData(h[k].loc.prompts),
                      ![k].loc.resources_data = ResourcesData(h[k].loc.resources)]
    /\ UNCHANGED <<objs, services, children, trail>>

CKey(kind, ns, name) == [kind |-> kind, ns |-> ns, name |-> name]

\* the verb a create-or-update ends with: replace (patch for a Deployment)
\* when the child exists, create after the 404 otherwise
Verb(ck) == IF ck \in DOMAIN children THEN "update" ELSE "create"

\* a writer that appends the new entries to those of the existing ConfigMap
create_or_update_configmap_merge(name, namespace, data, owner_reference) ==
    LET ck == CKey("ConfigMap", namespace, name)
    IN  Put(children, ck,
            [data |-> IF ck \in DOMAIN children
                      THEN [f \in DOMAIN data |-> children[ck].data[f] \o data[f]]
                      ELSE data,
             owner |-> owner_reference])

\* a writer that keeps a key of the existing ConfigMap whose new value is
\* the empty array
create_or_update_configmap_keeping(name, namespace, data, owner_reference) ==
    LET ck == CKey("ConfigMap", namespace, name)
    IN  Put(children, ck,
            [data |-> IF ck \in DOMAIN children
                      THEN [f \in DOMAIN data |->
                               IF data[f] = <<>> THEN children[ck].data[f] ELSE data[f]]
                      ELSE data,
             owner |-> owner_reference])

\* create_or_update_configmap: replace, or create on 404
create_or_update_configmap(name, namespace, data, owner_reference) ==
    Put(children, CKey("ConfigMap", namespace, name),
        [data |-> data, owner |-> owner_reference])

ServerWriteConfigMap(k) ==
    /\ k \in DOMAIN h
    /\ k.kind = "MCPServer" /\ h[k].pc = "configmap"
    /\ LET data == [tools |-> h[k].loc.tools_data,
                    prompts |-> h[k].loc.prompts_data,
                    resources |-> h[k].loc.resources_data]
           ck == CKey("ConfigMap", k.ns, ConfigMapName(k.name))
       IN  /\ children' = create_or_update_configmap(ConfigMapName(k.name), k.ns, data,
                                                     OwnerRef(k))
           /\ h' = [h EXCEPT ![k] =
                      [Note(h[k], <<"ConfigMap", Verb(ck)>>) EXCEPT
                          !.pc = IF The(h[k].spec).ingress # {} THEN "ingress"
                                 ELSE "deployment"]]
    /\ UNCHANGED <<objs, services, trail>>

\* a writer that keeps the path and the TLS entry of the Ingress it replaces
create_or_update_ingress_keeping(name, namespace, ingress, service_name, service_port, owner_reference) ==
    LET ck == CKey("Ingress", namespace, name)
    IN  Put(children, ck,
            [host |-> ingress.host,
             path |-> IF ck \in DOMAIN children THEN children[ck].path
                      ELSE ingress.pathPrefix,
             service_name |-> service_name, service_port |-> service_port,
             tls |-> IF ck \in DOMAIN children THEN children[ck].tls
                     ELSE IF ingress.tlsSecretName # None THEN Some(ingress.tlsSecretName)
                     ELSE {},
             owner |-> owner_reference])

\* create_or_update_ingress: read, then replace keeping the resourceVersion,
\* or create on 404
create_or_update_ingress(name, namespace, ingress, service_name, service_port, owner_reference) ==
    Put(children, CKey("Ingress", namespace, name),
        [host |-> ingress.host, path |-> ingress.pathPrefix,
         service_name |-> service_name, service_port |-> service_port,
         tls |-> IF ingress.tlsSecretName # None THEN Some(ingress.tlsSecretName) ELSE {},
         owner |-> owner_reference])

ServerWriteIngress(k) ==
    /\ k \in DOMAIN h
    /\ k.kind = "MCPServer" /\ h[k].pc = "ingress"
    /\ LET ck == CKey("Ingress", k.ns, ChildName(k.name))
       IN  /\ children' = create_or_update_ingress(ChildName(k.name), k.ns,
                                The(The(h[k].spec).ingress), ChildName(k.name), 8080,
                                OwnerRef(k))
           /\ h' = [h EXCEPT ![k] = [Note(h[k], <<"Ingress", Verb(ck)>>) EXCEPT
                                        !.pc = "deployment"]]
    /\ UNCHANGED <<objs, services, trail>>

\* create_or_update_deployment: patch with the desired body (the status the
\* cluster reports is kept), or create on 404
create_or_update_deployment(name, namespace, body) ==
    LET ck == CKey("Deployment", namespace, name)
    IN  Put(children, ck,
            [replicas |-> body.replicas, config_map |-> body.config_map,
             redis_host |-> body.redis_host, owner |-> body.owner,
             readyReplicas |-> IF ck \in DOMAIN children THEN children[ck].readyReplicas
                               ELSE {}])

\* a pass that deletes the Ingress when the spec sets none
ServerWriteDeploymentPruning(k) ==
    /\ k \in DOMAIN h
    /\ k.kind = "MCPServer" /\ h[k].pc = "deployment"
    /\ LET ck == CKey("Deployment", k.ns, ChildName(k.name))
           server_spec == The(h[k].spec)
           deployment_body == [replicas |-> server_spec.replicas,
                               config_map |-> ConfigMapName(k.name),
                               redis_host |-> server_spec.redis,
                               owner |-> OwnerRef(k)]
           written == create_or_update_deployment(ChildName(k.name), k.ns,
                                                  deployment_body)
       IN  /\ children' = IF server_spec.ingress = {}
                          THEN Drop(written, CKey("Ingress", k.ns, ChildName(k.name)))
                          ELSE written
           /\ h' = [h EXCEPT ![k] = [Note(h[k], <<"Deployment", Verb(ck)>>) EXCEPT
                                        !.pc = "service"]]
    /\ UNCHANGED <<objs, services, trail>>

\* a pass that goes from the Deployment straight to the status
ServerWriteDeploymentThenStatus(k) ==
    /\ k \in DOMAIN h
    /\ k.kind = "MCPServer" /\ h[k].pc = "deployment"
    /\ LET ck == CKey("Deployment", k.ns, ChildName(k.name))
           server_spec == The(h[k].spec)
           deployment_body == [replicas |-> server_spec.replicas,
                               config_map |-> ConfigMapName(k.name),
                               redis_host |-> server_spec.redis,
                               owner |-> OwnerRef(k)]
       IN  /\ children' = create_or_update_deployment(ChildName(k.name), k.ns,
                                                      deployment_body)
           /\ h' = [h EXCEPT ![k] = [Note(h[k], <<"Deployment", Verb(ck)>>) EXCEPT
                                        !.pc = "status"]]
    /\ UNCHANGED <<objs, services, trail>>

ServerWriteDeployment(k) ==
    /\ k \in DOMAIN h
    /\ k.kind = "MCPServer" /\ h[k].pc = "deployment"
    /\ LET ck == CKey("Deployment", k.ns, ChildName(k.name))
           server_spec == The(h[k].spec)
           deployment_body == [replicas |-> server_spec.replicas,
                               config_map |-> ConfigMapName(k.name),
                               redis_host |-> server_spec.redis,
                               owner |-> OwnerRef(k)]
       IN  /\ children' = create_or_update_deployment(ChildName(k.name), k.ns,
                                                      deployment_body)
           /\ h' = [h EXCEPT ![k] = [Note(h[k], <<"Deployment", Verb(ck)>>) EXCEPT
                                        !.pc = "service"]]
    /\ UNCHANGED <<objs, services, trail>>

\* The two calls of create_or_update_deployment, one step each: between
\* them another writer may act on the Deployment.
\* patch_namespaced_deployment: 404 when there is no such Deployment, else
\* the fields of the body are set and the status is kept
patch_namespaced_deployment(name, namespace, body) ==
    LET ck == CKey("Deployment", namespace, name)
    IN  IF ck \notin DOMAIN children THEN [status |-> 404, children |-> children]
        ELSE [status |-> 200,
              children |-> Put(children, ck,
                               [replicas |-> body.replicas, config_map |-> body.config_map,
                                redis_host |-> body.redis_host, owner |-> body.owner,
                                readyReplicas |-> children[ck].readyReplicas])]

\* create_namespaced_deployment: 409 when the Deployment exists
create_namespaced_deployment(name, namespace, body) ==
    LET ck == CKey("Deployment", namespace, name)
    IN  IF ck \in DOMAIN children THEN [status |-> 409, children |-> children]
        ELSE [status |-> 201,
              children |-> Put(children, ck,
                               [replicas |-> body.replicas, config_map |-> body.config_map,
                                redis_host |-> body.redis_host, owner |-> body.owner,
                                readyReplicas |-> {}])]

\* a handling of the patch's answer that creates on any failure
AfterPatchAnyFailure(status) == IF status = 200 THEN "done" ELSE "create"

\* the except clause of create_or_update_deployment
AfterPatch(status) ==
    IF status = 200 THEN "done" ELSE IF status = 404 THEN "create" ELSE "raise"

\* the Deployment body the pass of k builds, adopted by k
DeploymentBody(k) ==
    [replicas |-> The(h[k].spec).replicas, config_map |-> ConfigMapName(k.name),
     redis_host |-> The(h[k].spec).redis, owner |-> OwnerRef(k)]

\* the first call of create_or_update_deployment; the store may reject it
ServerPatchDeployment(k) ==
    /\ k \in DOMAIN h
    /\ k.kind = "MCPServer" /\ h[k].pc = "deployment"
    /\ \E rejected \in BOOLEAN :
          LET ck == CKey("Deployment", k.ns, ChildName(k.name))
              res == IF rejected THEN [status |-> 500, children |-> children]
                     ELSE patch_namespaced_deployment(ChildName(k.name), k.ns,
                                                      DeploymentBody(k))
              hk == [h[k] EXCEPT !.lookups = Append(@, Call("patch", res.status))]
              then == AfterPatch(res.status)
          IN  /\ children' = res.children
              /\ h' = [h EXCEPT ![k] =
                         CASE then = "done" ->
                                [Note(hk, <<"Deployment", "update">>) EXCEPT !.pc = "service"]
                           [] then = "create" -> [hk EXCEPT !.pc = "deployment_create"]
                           [] OTHER -> [Returned(hk, "raised") EXCEPT !.pending = TRUE]]
              /\ objs' = IF then = "raise" THEN ApplyPatch(k, h[k].patch) ELSE objs
    /\ UNCHANGED <<services, trail>>

\* the second call, made after a 404; nothing of it is caught
ServerCreateDeployment(k) ==
    /\ k \in DOMAIN h
    /\ k.kind = "MCPServer" /\ h[k].pc = "deployment_create"
    /\ \E rejected \in BOOLEAN :
          LET res == IF rejected THEN [status |-> 500, children |-> children]
                     ELSE create_namespaced_deployment(ChildName(k.name), k.ns,
                                                       DeploymentBody(k))
              hk == [h[k] EXCEPT !.lookups = Append(@, Call("create", res.status))]
          IN  /\ children' = res.children
              /\ h' = [h EXCEPT ![k] =
                         IF res.status = 201
                         THEN [Note(hk, <<"Deployment", "create">>) EXCEPT !.pc = "service"]
                         ELSE [Returned(hk, "raised") EXCEPT !.pending = TRUE]]
              /\ objs' = IF res.status = 201 THEN objs ELSE ApplyPatch(k, h[k].patch)
    /\ UNCHANGED <<services, trail>>

\* a clusterIP that is not set
NoIp == <<>>

\* the V1Service body built from the arguments: no resourceVersion, no
\* clusterIP
ServiceBody(port, selector, owner_reference) ==
    [port |-> port, selector |-> selector, owner |-> owner_reference,
     cluster_ip |-> NoIp, resource_version |-> None]

\* the store's create: it assigns the clusterIP and the first resourceVersion
create_namespaced_service(name, body) ==
    [body EXCEPT !.cluster_ip = <<"ip-of-", name>>, !.resource_version = "rv1"]

\* the store's replace: the body must carry the resourceVersion the object
\* has now (else 409) and must not change the clusterIP (else 422); the
\* object gets a resourceVersion other than the one it had
replace_namespaced_service(existing, body) ==
    IF body.resource_version = existing.resource_version
       /\ body.cluster_ip = existing.cluster_ip
    THEN Some([body EXCEPT !.resource_version = IF @ = "rv1" THEN "rv2" ELSE "rv1"])
    ELSE {}

\* a writer that sends the body as built, whether or not the Service exists
create_or_update_service_blind(name, namespace, port, selector, owner_reference) ==
    LET ck == CKey("Service", namespace, name)
        body == ServiceBody(port, selector, owner_reference)
    IN  IF ck \in DOMAIN children
        THEN {Put(children, ck, stored) :
                 stored \in replace_namespaced_service(children[ck], body)}
        ELSE Some(Put(children, ck, create_namespaced_service(name, body)))

\* create_or_update_service: read; replace with the existing resourceVersion
\* and clusterIP, or create on 404; the children after the call, none when
\* the store rejected the replace
create_or_update_service(name, namespace, port, selector, owner_reference) ==
    LET ck == CKey("Service", namespace, name)
        body == ServiceBody(port, selector, owner_reference)
    IN  IF ck \in DOMAIN children
        THEN LET existing == children[ck]
                 carried == [body EXCEPT !.resource_version = existing.resource_version,
                                         !.cluster_ip = existing.cluster_ip]
             IN  {Put(children, ck, stored) :
                     stored \in replace_namespaced_service(existing, carried)}
        ELSE Some(Put(children, ck, create_namespaced_service(name, body)))

ServerWriteService(k) ==
    /\ k \in DOMAIN h
    /\ k.kind = "MCPServer" /\ h[k].pc = "service"
    /\ LET ck == CKey("Service", k.ns, ChildName(k.name))
           written == create_or_update_service(ChildName(k.name), k.ns, 8080, k.name,
                                               OwnerRef(k))
       IN  IF written = {}
           THEN /\ h' = [h EXCEPT ![k] = [Returned(h[k], "raised") EXCEPT !.pending = TRUE]]
                /\ objs' = ApplyPatch(k, h[k].patch)
                /\ children' = children
           ELSE /\ h' = [h EXCEPT ![k] = [Note(h[k], <<"Service", Verb(ck)>>) EXCEPT
                                             !.pc = "status"]]
                /\ objs' = objs
                /\ children' = The(written)
    /\ UNCHANGED <<services, trail>>

\* get_deployment: deployment.to_dict(), whose keys are the client's
\* attribute names (status.ready_replicas); None on 404
get_deployment(name, namespace) ==
    LET ck == CKey("Deployment", namespace, name)
    IN  IF ck \in DOMAIN children
        THEN Some([status |-> [ready_replicas |-> children[ck].readyReplicas]])
        ELSE {}

\* deployment["status"].get("readyReplicas") or 0
ReadyReplicas(deployment) ==
    IF deployment = {} THEN 0
    ELSE LET v == DictGet(The(deployment).status, "readyReplicas")
         IN  IF v = {} \/ The(v) = {} THEN 0 ELSE The(The(v))

ServerStatus(ready_replicas, tool_count, prompt_count, resource_count) ==
    [readyReplicas |-> ready_replicas, toolCount |-> tool_count,
     promptCount |-> prompt_count, resourceCount |-> resource_count,
     conditions |-> <<IF ready_replicas > 0
                      THEN _create_condition("Ready", "True", "DeploymentReady")
                      ELSE _create_condition("Ready", "False", "DeploymentNotReady")>>]

\* a rejection after which the children the pass had created are removed
ServerRejectedUndoing(k) ==
    /\ k \in DOMAIN h
    /\ k.kind = "MCPServer"
    /\ h[k].pc \in {"configmap", "ingress", "deployment", "service", "status"}
    /\ h' = [h EXCEPT ![k] = [Returned(h[k], "raised") EXCEPT !.pending = TRUE]]
    /\ objs' = ApplyPatch(k, h[k].patch)
    /\ children' =
          [ck \in {c \in DOMAIN children :
                     \A i \in 1..Len(h[k].loc.wrote) :
                         h[k].loc.wrote[i] # <<c.kind, "create">>} |-> children[ck]]
    /\ UNCHANGED <<services, trail>>

\* the store rejects the next call of the pass (ConfigMap, Ingress,
\* Deployment or Service write, Deployment read) with an error other than
\* 404: the client re-raises it, the pass ends there, kopf applies what the
\* patch holds and retries later
ServerRejected(k) ==
    /\ k \in DOMAIN h
    /\ k.kind = "MCPServer"
    /\ h[k].pc \in {"configmap", "ingress", "deployment", "service", "status"}
    /\ h' = [h EXCEPT ![k] = [Returned(h[k], "raised") EXCEPT !.pending = TRUE]]
    /\ objs' = ApplyPatch(k, h[k].patch)
    /\ UNCHANGED <<services, children, trail>>

\* an end of the pass that also annotates the MCPTools of the namespace
ServerFinishAnnotating(k) ==
    /\ k \in DOMAIN h
    /\ k.kind = "MCPServer" /\ h[k].pc = "status"
    /\ LET ready_replicas == ReadyReplicas(get_deployment(ChildName(k.name), k.ns))
           status == ServerStatus(ready_replicas, Len(h[k].loc.tools_data),
                                  Len(h[k].loc.prompts), Len(h[k].loc.resources))
           out == [spec |-> The(h[k].spec),
                   data |-> children[CKey("ConfigMap", k.ns, ConfigMapName(k.name))].data,
                   status |-> status, wrote |-> h[k].loc.wrote,
                   clean |-> /\ trail[k].last # {}
                             /\ ~trail[k].beforeStart /\ ~trail[k].sinceStart]
       IN  /\ h' = [t \in DOMAIN h |->
                      IF t = k THEN Returned([h[k] EXCEPT !.patch = Some(status)], "ok")
                      ELSE IF t.kind = "MCPTool" /\ t.ns = k.ns /\ ~objs[t].deleting
                      THEN [h[t] EXCEPT !.pending = TRUE]
                      ELSE h[t]]
           /\ objs' = ApplyPatch(k, Some(status))
           /\ trail' = [trail EXCEPT ![k].last = Some(out)]
    /\ UNCHANGED <<services, children>>

\* the read of the Deployment, the status patch and the return
ServerFinish(k) ==
    /\ k \in DOMAIN h
    /\ k.kind = "MCPServer" /\ h[k].pc = "status"
    /\ LET ready_replicas == ReadyReplicas(get_deployment(ChildName(k.name), k.ns))
           status == ServerStatus(ready_replicas, Len(h[k].loc.tools_data),
                                  Len(h[k].loc.prompts), Len(h[k].loc.resources))
           out == [spec |-> The(h[k].spec),
                   data |-> children[CKey("ConfigMap", k.ns, ConfigMapName(k.name))].data,
                   status |-> status, wrote |-> h[k].loc.wrote,
                   clean |-> /\ trail[k].last # {}
                             /\ ~trail[k].beforeStart /\ ~trail[k].sinceStart]
       IN  /\ h' = [h EXCEPT ![k] = Returned([h[k] EXCEPT !.patch = Some(status)], "ok")]
           /\ objs' = ApplyPatch(k, Some(status))
           /\ trail' = [trail EXCEPT ![k].last = Some(out)]
    /\ UNCHANGED <<services, children>>

(***************************************************************************)
(* MCPPrompt reconciler (controllers/mcpprompt_controller.py).             *)
(***************************************************************************)
\* [a-zA-Z0-9_]
WordChars == {"a", "b", "_"}

\* the longest run of word characters at the head of s
RECURSIVE WordRun(_)
WordRun(s) ==
    IF s # <<>> /\ Head(s) \in WordChars THEN <<Head(s)>> \o WordRun(Tail(s)) ELSE <<>>

\* re.findall(r"\{\{([a-zA-Z0-9_]+)\}\}", template): scan from the left; a
\* match is "{{", a non-empty run of word characters and "}}", and the scan
\* goes on after it
RECURSIVE FindAll(_)
FindAll(s) ==
    IF s = <<>> THEN <<>>
    ELSE LET run == WordRun(SubSeq(s, 3, Len(s)))
             after == SubSeq(s, 3 + Len(run), Len(s))
         IN  IF StartsWith(s, <<"{", "{">>) /\ run # <<>> /\ StartsWith(after, <<"}", "}">>)
             THEN <<run>> \o FindAll(SubSeq(after, 3, Len(after)))
             ELSE FindAll(Tail(s))

_extract_template_variables(template) == SeqToSet(FindAll(template))

\* PromptVariable.name: pattern ^[a-zA-Z0-9_]+$
VariableNameOk(n) == n # <<>> /\ \A i \in 1..Len(n) : n[i] \in WordChars

\* MCPPromptSpec(**spec) does not raise
MCPPromptSpecValid(spec) ==
    /\ spec.name # None
    /\ spec.template # <<>>
    /\ \A i \in 1..Len(spec.variables) : VariableNameOk(spec.variables[i])

\* ord() of a word character
Ord(c) == CASE c = "_" -> 95 [] c = "a" -> 97 [] c = "b" -> 98

\* a < b on str: the first differing character decides, a proper prefix is
\* smaller
RECURSIVE StrLessFrom(_, _, _)
StrLessFrom(a, b, i) ==
    IF i > Len(b) THEN FALSE
    ELSE IF i > Len(a) THEN TRUE
    ELSE IF a[i] # b[i] THEN Ord(a[i]) < Ord(b[i])
    ELSE StrLessFrom(a, b, i + 1)

StrLess(a, b) == StrLessFrom(a, b, 1)

\* sorted(names) of a set of str
RECURSIVE sorted(_)
sorted(names) ==
    IF names = {} THEN <<>>
    ELSE LET least == CHOOSE n \in names : \A m \in names \ {n} : StrLess(n, m)
         IN  <<least>> \o sorted(names \ {least})

\* datetime.now(UTC).isoformat(): the clock is not modelled, a time is a time
now == "now"

\* the status of one outcome: validated, lastValidationTime and one
\* condition, here with its message
PromptStatus(validated, reason, message) ==
    [validated |-> validated,
     lastValidationTime |-> now,
     conditions |-> <<_create_condition("Validated",
                                        IF validated THEN "True" ELSE "False", reason)
                      @@ [message |-> message]>>]

UndeclaredMessage(undeclared_vars) ==
    <<"Template uses undeclared variables: ">> \o Join(sorted(undeclared_vars), <<",", " ">>)

UnusedMessage(unused_vars) ==
    <<"Declared variables not used in template: ">> \o Join(sorted(unused_vars), <<",", " ">>)

ValidMessage == <<"Template and variables validated successfully">>

\* a validation that looks for undeclared variables only
PromptOutcomeUndeclaredOnly(prompt_spec) ==
    LET undeclared_vars ==
            _extract_template_variables(prompt_spec.template) \ SeqToSet(prompt_spec.variables)
    IN  IF undeclared_vars # {}
        THEN PromptStatus(FALSE, "UndeclaredVariables", UndeclaredMessage(undeclared_vars))
        ELSE PromptStatus(TRUE, "TemplateValid", ValidMessage)

\* a validation that looks for unused variables before undeclared ones
PromptOutcomeUnusedFirst(prompt_spec) ==
    LET template_vars == _extract_template_variables(prompt_spec.template)
        declared_vars == SeqToSet(prompt_spec.variables)
        undeclared_vars == template_vars \ declared_vars
        unused_vars == declared_vars \ template_vars
    IN  IF unused_vars # {}
        THEN PromptStatus(FALSE, "UnusedVariables", UnusedMessage(unused_vars))
        ELSE IF undeclared_vars # {}
        THEN PromptStatus(FALSE, "UndeclaredVariables", UndeclaredMessage(undeclared_vars))
        ELSE PromptStatus(TRUE, "TemplateValid", ValidMessage)

\* _reconcile_mcpprompt_inner after validation
PromptOutcome(prompt_spec) ==
    LET template_vars == _extract_template_variables(prompt_spec.template)
        declared_vars == SeqToSet(prompt_spec.variables)
        undeclared_vars == template_vars \ declared_vars
        unused_vars == declared_vars \ template_vars
    IN  IF undeclared_vars # {}
        THEN PromptStatus(FALSE, "UndeclaredVariables", UndeclaredMessage(undeclared_vars))
        ELSE IF unused_vars # {}
        THEN PromptStatus(FALSE, "UnusedVariables", UnusedMessage(unused_vars))
        ELSE PromptStatus(TRUE, "TemplateValid", ValidMessage)

\* reconcile_mcpprompt: no store call, so one step
ReconcilePrompt(k) ==
    /\ k.kind = "MCPPrompt" /\ Idle(k) /\ h[k].pending /\ ~objs[k].deleting
    /\ LET hk == Begin(k, "reconcile")
           spec == objs[k].spec
       IN  IF ~MCPPromptSpecValid(spec)
           THEN /\ h' = [h EXCEPT ![k] = [Returned(hk, "raised") EXCEPT !.pending = TRUE]]
                /\ objs' = objs
           ELSE /\ h' = [h EXCEPT ![k] =
                            Returned([hk EXCEPT !.patch = Some(PromptOutcome(spec))], "ok")]
                /\ objs' = ApplyPatch(k, Some(PromptOutcome(spec)))
    /\ UNCHANGED <<services, children, trail>>

(***************************************************************************)
(* MCPResource reconciler (controllers/mcpresource_controller.py).         *)
(***************************************************************************)
Whitespace == {" "}

\* str.strip()
RECURSIVE LStrip(_)
LStrip(s) == IF s # <<>> /\ Head(s) \in Whitespace THEN LStrip(Tail(s)) ELSE s

RECURSIVE RStrip(_)
RStrip(s) ==
    IF s # <<>> /\ s[Len(s)] \in Whitespace THEN RStrip(SubSeq(s, 1, Len(s) - 1)) ELSE s

Strip(s) == RStrip(LStrip(s))

\* x and len(x.strip()) > 0, for an optional string
\* a test of the length that does not strip first
HasDataUntrimmed(o) == o # {} /\ The(o) # <<>>

HasData(o) == o # {} /\ The(o) # <<>> /\ Len(Strip(The(o))) > 0

\* MCPResourceSpec(**spec) does not raise
MCPResourceSpecValid(spec) ==
    /\ spec.name # None
    /\ spec.operations # {} =>
          \A i \in 1..Len(The(spec.operations)) :
              ServiceReferenceValid(The(spec.operations)[i].service)

ResourceStatus(ready, operation_count, conditions) ==
    [ready |-> ready, operationCount |-> operation_count, conditions |-> conditions]

\* a loop that looks up the Service of every operation, found or not
OperationLookupsAll(operations, namespace) ==
    [i \in 1..Len(operations) |->
        Svc(IF operations[i].service.namespace # None
            THEN operations[i].service.namespace ELSE namespace,
            operations[i].service.name)]

\* the Service lookups of the operations loop, in order, up to and including
\* the first that finds nothing
RECURSIVE OperationLookups(_, _)
OperationLookups(operations, namespace) ==
    IF operations = <<>> THEN <<>>
    ELSE LET ref == Head(operations).service
             service_namespace == IF ref.namespace # None THEN ref.namespace ELSE namespace
         IN  IF get_service(ref.name, service_namespace)
             THEN <<Svc(service_namespace, ref.name)>>
                      \o OperationLookups(Tail(operations), namespace)
             ELSE <<Svc(service_namespace, ref.name)>>

\* an evaluation that looks at the operations before the content
ResourceOutcomeOperationsFirst(resource_spec, namespace) ==
    LET Result(st, lk) == [status |-> st, lookups |-> lk]
    IN  IF TruthyList(resource_spec.operations)
        THEN LET lookups == OperationLookups(The(resource_spec.operations), namespace)
                 last == lookups[Len(lookups)]
             IN  IF ~get_service(last.name, last.ns)
                 THEN Result(ResourceStatus(FALSE, Len(The(resource_spec.operations)),
                        <<_create_condition("Ready", "False", "ServiceNotFound")>>), lookups)
                 ELSE Result(ResourceStatus(TRUE, Len(The(resource_spec.operations)),
                        <<_create_condition("Ready", "True", "OperationsValid")>>), lookups)
        ELSE Result(ResourceStatus(FALSE, 0,
                        <<_create_condition("Ready", "False", "InvalidSpec")>>), <<>>)

\* reconcile_mcpresource after validation: [status, lookups]
ResourceOutcome(resource_spec, namespace) ==
    LET operation_count == LenOrEmpty(resource_spec.operations)
        Result(st, lk) == [status |-> st, lookups |-> lk]
    IN  IF resource_spec.operations = {} /\ resource_spec.content = {}
        THEN Result(ResourceStatus(FALSE, 0,
                        <<_create_condition("Ready", "False", "InvalidSpec")>>), <<>>)
        ELSE IF resource_spec.content # {}
        THEN IF ~HasData(The(resource_spec.content).text)
                /\ ~HasData(The(resource_spec.content).blob)
             THEN Result(ResourceStatus(FALSE, 0,
                        <<_create_condition("Ready", "False", "EmptyContent")>>), <<>>)
             ELSE Result(ResourceStatus(TRUE, 0,
                        <<_create_condition("Ready", "True", "ContentValid")>>), <<>>)
        ELSE IF TruthyList(resource_spec.operations)
        THEN LET lookups == OperationLookups(The(resource_spec.operations), namespace)
                 last == lookups[Len(lookups)]
             IN  IF ~get_service(last.name, last.ns)
                 THEN Result(ResourceStatus(FALSE, operation_count,
                        <<_create_condition("Ready", "False", "ServiceNotFound")>>), lookups)
                 ELSE Result(ResourceStatus(TRUE, operation_count,
                        <<_create_condition("Ready", "True", "OperationsValid")>>), lookups)
        ELSE Result(ResourceStatus(FALSE, 0, <<>>), <<>>)

\* reconcile_mcpresource: the lookups of one pass are taken together
ReconcileResource(k) ==
    /\ k.kind = "MCPResource" /\ Idle(k) /\ h[k].pending /\ ~objs[k].deleting
    /\ LET hk == Begin(k, "reconcile")
           spec == objs[k].spec
           res == ResourceOutcome(spec, k.ns)
       IN  IF ~MCPResourceSpecValid(spec)
           THEN /\ h' = [h EXCEPT ![k] = [Returned(hk, "raised") EXCEPT !.pending = TRUE]]
                /\ objs' = objs
           ELSE /\ h' = [h EXCEPT ![k] =
                            Returned([hk EXCEPT !.patch = Some(res.status),
                                                !.lookups = res.lookups], "ok")]
                /\ objs' = ApplyPatch(k, Some(res.status))
    /\ UNCHANGED <<services, children, trail>>

\* delete_mcpserver: logs, and leaves the children to the garbage collector
delete_mcpserver(k) ==
    /\ k.kind = "MCPServer"
    /\ Idle(k) /\ objs[k].deleting /\ ~h[k].delDone
    /\ h' = [h EXCEPT ![k] = Returned(Begin(k, "delete"), "ok")]
    /\ UNCHANGED <<objs, services, children, trail>>

(***************************************************************************)
(* Users and the cluster.                                                  *)
(***************************************************************************)
\* a manifest is applied for the first time
Create(k, labels, spec) ==
    /\ k \notin DOMAIN objs
    /\ objs' = Put(objs, k, [labels |-> labels, spec |-> spec, status |-> {},
                             deleting |-> FALSE])
    /\ h' = Put(h, k, NewHandler)
    /\ trail' = IF k.kind = "MCPServer" THEN Put(trail, k, NewTrail) ELSE Disturbed(trail)
    /\ UNCHANGED <<services, children>>

\* the spec of an object is changed: an update event
Update(k, spec) ==
    /\ k \in DOMAIN objs /\ ~objs[k].deleting /\ objs[k].spec # spec
    /\ objs' = [objs EXCEPT ![k].spec = spec]
    /\ h' = [h EXCEPT ![k].pending = TRUE]
    /\ trail' = Disturbed(trail)
    /\ UNCHANGED <<services, children>>

\* a delete request: the object stays in the store, marked, until kopf's
\* finalizer is removed
Delete(k) ==
    /\ k \in DOMAIN objs /\ ~objs[k].deleting
    /\ objs' = [objs EXCEPT ![k].deleting = TRUE]
    /\ UNCHANGED <<h, services, children, trail>>

ServiceCreated(s) ==
    /\ s \notin services
    /\ services' = services \cup {s}
    /\ trail' = Disturbed(trail)
    /\ UNCHANGED <<objs, h, children>>

ServiceDeleted(s) ==
    /\ s \in services
    /\ services' = services \ {s}
    /\ trail' = Disturbed(trail)
    /\ UNCHANGED <<objs, h, children>>

\* any other change of the object that posts an update event with the spec
\* as it was (an annotation set by hand)
Touch(k) ==
    /\ k \in DOMAIN objs /\ ~objs[k].deleting
    /\ h' = [h EXCEPT ![k].pending = TRUE]
    /\ UNCHANGED <<objs, services, children, trail>>

\* "Owner references handle cleanup automatically": the cluster's garbage
\* collector deletes a child whose owner is no longer in the store
Collected(ck) ==
    /\ ck \in DOMAIN children
    /\ ~\E k \in DOMAIN objs :
          /\ k.kind = children[ck].owner.kind /\ k.ns = ck.ns
          /\ metadata_uid(k) = children[ck].owner.uid
    /\ children' = Drop(children, ck)
    /\ UNCHANGED <<objs, h, services, trail>>

\* the cluster reports the Deployment's ready replicas
DeploymentStatus(ck, n) ==
    /\ ck \in DOMAIN children /\ ck.kind = "Deployment"
    /\ n \in 0..children[ck].replicas
    /\ children[ck].readyReplicas # Some(n)
    /\ children' = [children EXCEPT ![ck].readyReplicas = Some(n)]
    /\ trail' = Disturbed(trail)
    /\ UNCHANGED <<objs, h, services>>

\* one step of the handler of an MCPTool
ToolStep(k) ==
    \/ ToolGetService(k)
    \/ ToolResolve(k)
    \/ TriggerList(k)
    \/ TriggerTouch(k)
    \/ DeleteHandler(k)
    \/ Removed(k)

\* one step of the handler of an MCPServer whose spec sets no ingress
ServerStepNoIngress(k) ==
    \/ ServerListTools(k)
    \/ ServerListPrompts(k)
    \/ ServerListResources(k)
    \/ ServerAggregate(k)
    \/ ServerWriteConfigMap(k)
    \/ ServerWriteDeployment(k)
    \/ ServerWriteService(k)
    \/ ServerFinish(k)

\* one step of the handler of an MCPServer
ServerStep(k) == ServerStepNoIngress(k) \/ ServerWriteIngress(k)

\* one step of the handler of an MCPPrompt
PromptStep(k) ==
    \/ ReconcilePrompt(k)
    \/ DeleteHandler(k)
    \/ TriggerList(k)
    \/ TriggerTouch(k)
    \/ Removed(k)

\* one step of the handler of an MCPResource
ResourceStep(k) ==
    \/ ReconcileResource(k)
    \/ DeleteHandler(k)
    \/ TriggerList(k)
    \/ TriggerTouch(k)
    \/ Removed(k)

\* no handler is running and no event waits (a handler that raised is
\* retried by kopf, to the same end, for as long as the spec stays invalid)
Quiescent ==
    \A k \in DOMAIN objs :
        /\ h[k].pc = "idle"
        /\ ~objs[k].deleting
        /\ h[k].pending => h[k].outcome = "raised"

(***************************************************************************)
(* The objects of the scenarios.                                           *)
(***************************************************************************)
S == Key("MCPServer", "ns1", "S")

T == Key("MCPTool", "ns1", "T")

P == Key("MCPPrompt", "ns1", "P")

R == Key("MCPResource", "ns1", "R")

AppX == {<<"app", "x">>}

SelectorAppX == [matchLabels |-> Some(<<<<"app", "x">>>>), matchExpressions |-> {}]

ServerSpec(ingress) ==
    [replicas |-> 1, redis |-> "mcp-redis", ingress |-> ingress,
     toolSelector |-> Some(SelectorAppX)]

Ref(name, port, path) == [name |-> name, namespace |-> None, port |-> port, path |-> path]

EchoTool == [name |-> "echo", tools |-> {}, service |-> Ref("svc", 80, NoPath)]

MultiTool ==
    [name |-> None,
     tools |-> Some(<<[name |-> "a", path |-> <<"/", "a">>],
                      [name |-> "b", path |-> <<"/", "b">>]>>),
     service |-> Ref("svc", 80, NoPath)]

BaseEndpoint == <<"http", ":", "/", "/", "svc", ".", "ns1", ".svc.cluster.local", ":", "80">>

DeploymentS == CKey("Deployment", "ns1", ChildName("S"))

ConfigMapS == CKey("ConfigMap", "ns1", ConfigMapName("S"))

Empty == [x \in {} |-> {}]

(***************************************************************************)
(* SpecE2E: the end-to-end scenario.  Service svc exists; MCPServer S is   *)
(* created, then MCPTool T labelled app=x; T may be deleted once the       *)
(* system has settled.  Every handler keeps running (kopf's workers).      *)
(***************************************************************************)
InitE2E ==
    /\ objs = Empty
    /\ h = Empty
    /\ services = {Svc("ns1", "svc")}
    /\ children = Empty
    /\ trail = Empty

NextE2E ==
    \/ Create(S, {}, ServerSpec({}))
    \/ \E spec \in {EchoTool, MultiTool} : S \in DOMAIN objs /\ Create(T, AppX, spec)
    \/ Quiescent /\ Delete(T)
    \/ \E n \in {0, 1} : DeploymentStatus(DeploymentS, n)
    \/ ServerStepNoIngress(S)
    \/ ToolStep(T)

SpecE2E ==
    InitE2E /\ [][NextE2E]_vars /\ WF_vars(ServerStepNoIngress(S)) /\ WF_vars(ToolStep(T))

ToolsJson == children[ConfigMapS].data.tools

EchoLive == T \in DOMAIN objs /\ objs[T].spec = EchoTool /\ ~objs[T].deleting

EchoOnly ==
    /\ ConfigMapS \in DOMAIN children
    /\ Len(ToolsJson) = 1
    /\ ToolsJson[1].name = "echo"
    /\ objs[S].status # {}
    /\ The(objs[S].status).toolCount = 1

\* C1: end-to-end convergence.  Once the single-tool MCPTool "echo" exists
\* beside MCPServer S (created first, Service svc present), the system
\* reaches, in every interleaving of the handlers' steps, a settled state in
\* which tools.json of mcp-server-S-config has exactly one entry, named
\* "echo", and S.status.toolCount = 1; and every settled state with the tool
\* in place is such a state.
C1_EndToEnd ==
    /\ [](Quiescent /\ EchoLive => EchoOnly)
    /\ (EchoLive ~> (Quiescent /\ EchoOnly))

C1_Witness == Quiescent /\ EchoLive /\ EchoOnly

\* C2: deletion convergence, as claimed: once T is gone from the store and
\* the system has settled, tools.json of S is the empty array and
\* S.status.toolCount = 0, in every interleaving of the delete handler, the
\* removal of T and the list call of S's pass.
C2_DeletionConverges ==
    (Quiescent /\ T \notin DOMAIN objs /\ ConfigMapS \in DOMAIN children
        /\ S \in DOMAIN objs /\ objs[S].status # {})
    => (ToolsJson = <<>> /\ The(objs[S].status).toolCount = 0)

MultiEntriesAB ==
    <<[name |-> "a", endpoint |-> BaseEndpoint \o <<"/", "a">>],
      [name |-> "b", endpoint |-> BaseEndpoint \o <<"/", "b">>]>>

MultiLive == T \in DOMAIN objs /\ objs[T].spec = MultiTool /\ ~objs[T].deleting

\* C10: multi-tool expansion.  The multi-tool MCPTool [a:/a, b:/b] on
\* service svc:80 (which exists) contributes exactly the two entries with
\* endpoints <base>/a and <base>/b to every pass of S that lists it and to
\* the settled tools.json, and the status its own reconcile writes carries
\* the bare base endpoint.
C10_MultiToolExpansion ==
    /\ (S \in DOMAIN objs /\ h[S].loc.tools = <<MultiTool>>
          /\ h[S].pc \notin {"idle", "list_prompts", "list_resources", "aggregate"})
       => h[S].loc.tools_data = MultiEntriesAB
    /\ (Quiescent /\ MultiLive)
       => (ConfigMapS \in DOMAIN children /\ ToolsJson = MultiEntriesAB)
    /\ (MultiLive /\ objs[T].status # {})
       => The(objs[T].status).resolvedEndpoint = BaseEndpoint

C10_Witness ==
    /\ Quiescent /\ MultiLive
    /\ ToolsJson = MultiEntriesAB
    /\ The(objs[T].status) = ToolReady(BaseEndpoint)

(***************************************************************************)
(* Spec: the operator at large.  One MCPServer, one MCPTool, one           *)
(* MCPPrompt and one MCPResource of namespace ns1 are created, updated and *)
(* deleted by users while Service svc comes and goes and the Deployment    *)
(* reports its replicas; the four handlers run one store call at a time.   *)
(* Users and the cluster act one at a time, once the handlers have dealt   *)
(* with the previous act.                                                  *)
(***************************************************************************)
IngressA == [host |-> "mcp.example", tlsSecretName |-> None, pathPrefix |-> <<"/", "mcp">>]

PromptHello ==
    [name |-> "hello", template |-> <<"{", "{", "a", "}", "}">>, variables |-> <<<<"a">>>>]

PromptBye == [name |-> "bye", template |-> <<"a">>, variables |-> <<>>]

ResourceDoc ==
    [name |-> "doc", content |-> Some([text |-> Some(<<"a">>), blob |-> {}]),
     operations |-> {}]

ResourceOps ==
    [name |-> "ops", content |-> {},
     operations |-> Some(<<[method |-> "GET", service |-> Ref("svc", 80, NoPath)]>>)]

SpecsOf(k) ==
    CASE k.kind = "MCPTool" -> {EchoTool, MultiTool}
      [] k.kind = "MCPPrompt" -> {PromptHello, PromptBye}
      [] k.kind = "MCPResource" -> {ResourceDoc, ResourceOps}
      [] k.kind = "MCPServer" -> {ServerSpec({}), ServerSpec(Some(IngressA))}

Init ==
    /\ objs = Empty
    /\ h = Empty
    /\ services = {}
    /\ children = Empty
    /\ trail = Empty

\* the acts of users and of the cluster
Environment ==
    \/ \E spec \in SpecsOf(S) : Create(S, {}, spec)
    \/ \E spec \in SpecsOf(S) : Update(S, spec)
    \/ \E spec \in SpecsOf(T) : Create(T, AppX, spec)
    \/ Create(P, AppX, PromptHello)
    \/ Create(R, AppX, ResourceDoc)
    \/ Delete(T)
    \/ Touch(S)
    \/ ServiceCreated(Svc("ns1", "svc"))
    \/ ServiceDeleted(Svc("ns1", "svc"))
    \/ \E n \in {0, 1} : DeploymentStatus(DeploymentS, n)

Next ==
    \/ Quiescent /\ Environment
    \/ ServerStep(S)
    \/ ToolStep(T)
    \/ ReconcilePrompt(P)
    \/ ReconcileResource(R)

Spec == Init /\ [][Next]_vars

\* the pass of server k ends in this step
PassEnds(k) == k \in DOMAIN h /\ h[k].pc = "status" /\ k \in DOMAIN h' /\ h'[k].pc = "idle"

RECURSIVE AllUpdates(_)
AllUpdates(wrote) ==
    wrote = <<>> \/ (Head(wrote)[2] = "update" /\ AllUpdates(Tail(wrote)))

\* C6: idempotence of the MCPServer reconcile.  When a pass of S ends and
\* nothing it reads (the matching objects, the Services, the Deployment's
\* status) has changed since the previous completed pass of the same spec
\* began, the ConfigMap data after this pass is the data after the previous
\* one, the status written (readyReplicas, the three counts, the condition)
\* is the same, and every child was updated, none created anew.
C6_Idempotent ==
    [][PassEnds(S) /\ The(trail'[S].last).clean
          /\ The(trail'[S].last).spec = The(trail[S].last).spec
       => /\ The(trail'[S].last).data = The(trail[S].last).data
          /\ children'[ConfigMapS].data = The(trail[S].last).data
          /\ The(trail'[S].last).status = The(trail[S].last).status
          /\ objs'[S].status = Some(The(trail[S].last).status)
          /\ AllUpdates(The(trail'[S].last).wrote)]_vars

C6_Witness ==
    /\ S \in DOMAIN objs /\ trail[S].last # {}
    /\ The(trail[S].last).clean
    /\ The(trail[S].last).spec.ingress # {}
    /\ Len(The(trail[S].last).data.tools) = 2
    /\ Len(The(trail[S].last).data.prompts) = 1
    /\ Len(The(trail[S].last).wrote) = 4
    /\ The(trail[S].last).status.toolCount = 2

(***************************************************************************)
(* SpecFanOut: prompts and resources beside a server.  MCPServer S exists  *)
(* or not; MCPPrompt P and MCPResource R are created, updated and deleted, *)
(* and Service svc comes and goes, one act at a time.                      *)
(***************************************************************************)
NextFanOut ==
    \/ Quiescent /\ \E spec \in SpecsOf(S) : Create(S, {}, spec)
    \/ Quiescent /\ \E k \in {P, R} : \E spec \in SpecsOf(k) : Create(k, AppX, spec)
    \/ Quiescent /\ \E k \in {P, R} : \E spec \in SpecsOf(k) : Update(k, spec)
    \/ Quiescent /\ \E k \in {P, R} : Delete(k)
    \/ Quiescent /\ ServiceCreated(Svc("ns1", "svc"))
    \/ Quiescent /\ ServiceDeleted(Svc("ns1", "svc"))
    \/ ServerStep(S)
    \/ PromptStep(P)
    \/ ResourceStep(R)

SpecFanOut == Init /\ [][NextFanOut]_vars

\* C3: as claimed, every reconcile pass of an MCPTool, an MCPPrompt or an
\* MCPResource that completed successfully has invoked the Cross-Resource
\* Trigger for the object's namespace.
C3_TriggerAfterReconcile ==
    \A k \in DOMAIN h :
        (k.kind \in {"MCPTool", "MCPPrompt", "MCPResource"}
            /\ h[k].mode = "reconcile" /\ h[k].pc = "idle" /\ h[k].outcome = "ok")
        => h[k].triggered

\* C4: as claimed, once the handlers have settled after a matching
\* MCPPrompt or MCPResource was created or updated beside MCPServer S,
\* prompts.json / resources.json of S's ConfigMap and promptCount /
\* resourceCount of S's status reflect the object as it now is.
C4_ReAggregated ==
    (Quiescent /\ S \in DOMAIN objs /\ ConfigMapS \in DOMAIN children /\ objs[S].status # {})
    => /\ P \in DOMAIN objs =>
            /\ children[ConfigMapS].data.prompts = PromptsData(<<objs[P].spec>>)
            /\ The(objs[S].status).promptCount = 1
       /\ R \in DOMAIN objs =>
            /\ children[ConfigMapS].data.resources = ResourcesData(<<objs[R].spec>>)
            /\ The(objs[S].status).resourceCount = 1

(***************************************************************************)
(* SpecAggregation: the aggregation test.  MCPServer S is created; once    *)
(* its ConfigMap holds an empty tools.json, MCPTool T (name "echo",        *)
(* labelled app=x, service svc:80) is created.  No Service exists at the   *)
(* start; one may be created or deleted when the handlers have settled.    *)
(***************************************************************************)
NextAggregation ==
    \/ Create(S, {}, ServerSpec({}))
    \/ /\ ConfigMapS \in DOMAIN children
       /\ children[ConfigMapS].data.tools = <<>>
       /\ Create(T, AppX, EchoTool)
    \/ Quiescent /\ Delete(T)
    \/ Quiescent /\ ServiceCreated(Svc("ns1", "svc"))
    \/ Quiescent /\ ServiceDeleted(Svc("ns1", "svc"))
    \/ ServerStepNoIngress(S)
    \/ ToolStep(T)

SpecAggregation == Init /\ [][NextAggregation]_vars

\* C5: as claimed, once the handlers have settled after the matching
\* single-tool MCPTool was created beside a server whose ConfigMap had an
\* empty tools.json, that tools.json holds an entry with the tool's name,
\* whether or not the Service the tool refers to exists.
C5_ToolAggregated ==
    (Quiescent /\ S \in DOMAIN objs /\ T \in DOMAIN objs)
    => \E i \in 1..Len(ToolsJson) : ToolsJson[i].name = objs[T].spec.name

(***************************************************************************)
(* SpecPrompt: the MCPPrompt reconcile over generated templates.  The      *)
(* template of P is a concatenation of one to MaxPieces pieces; its        *)
(* declared variables are one of a few lists.                              *)
(***************************************************************************)
Pieces ==
    {<<"{", "{">>, <<"}", "}">>, <<"{">>, <<"}">>, <<"a">>, <<"b">>, <<"_">>, <<" ">>,
     <<"{", "{", "a", "}", "}">>, <<"{", "{", "b", "}", "}">>}

RECURSIVE Templates(_)
Templates(n) ==
    IF n = 0 THEN {<<>>}
    ELSE LET shorter == Templates(n - 1)
         IN  shorter \cup {t \o p : t \in shorter, p \in Pieces}

Declared ==
    {<<>>, <<<<"a">>>>, <<<<"b">>>>, <<<<"a">>, <<"b">>>>, <<<<"a">>, <<"a">>>>,
     <<<<"a", "b">>>>, <<<<"b">>, <<"a", "b">>, <<"_">>, <<"a">>>>}

InitPrompt ==
    /\ \E t \in Templates(MaxPieces) \ {<<>>} : \E d \in Declared :
          objs = Put(Empty, P, [labels |-> AppX, status |-> {}, deleting |-> FALSE,
                                spec |-> [name |-> "p", template |-> t, variables |-> d]])
    /\ h = Put(Empty, P, NewHandler)
    /\ services = {}
    /\ children = Empty
    /\ trail = Empty

NextPrompt == ReconcilePrompt(P)

SpecPrompt == InitPrompt /\ [][NextPrompt]_vars

\* the names n for which "{{" n "}}" occurs somewhere in template t
Placeholders(t) ==
    {n \in {SubSeq(t, i, j) : i \in 1..Len(t), j \in 1..Len(t)} :
        VariableNameOk(n) /\ Contains(t, <<"{", "{">> \o n \o <<"}", "}">>)}

\* C7: prompt variable symmetry.  The status the MCPPrompt reconcile writes
\* has validated = true exactly when the set of names that occur in the
\* template as {{name}} placeholders equals the set of declared variables;
\* a name on one side only yields validated = false.
C7_VariableSymmetry ==
    (P \in DOMAIN objs /\ objs[P].status # {})
    => (The(objs[P].status).validated
          <=> Placeholders(objs[P].spec.template) = SeqToSet(objs[P].spec.variables))

C7_Witness ==
    /\ P \in DOMAIN objs /\ objs[P].status # {}
    /\ ~The(objs[P].status).validated
    /\ Placeholders(objs[P].spec.template) = {<<"a">>}
    /\ SeqToSet(objs[P].spec.variables) = {<<"a">>, <<"b">>}

(***************************************************************************)
(* SpecToolMode: the MCPTool reconcile over the modes of a spec.  T is in  *)
(* the store beside MCPServer S with name set or not and tools absent,     *)
(* empty or not; Service svc exists or not.                                *)
(***************************************************************************)
ToolModes ==
    {[name |-> n, tools |-> ts, service |-> Ref("svc", 80, NoPath)] :
        n \in {None, "echo"},
        ts \in {{}, Some(<<>>), Some(<<[name |-> "a", path |-> <<"/", "a">>]>>),
                MultiTool.tools}}

InitToolMode ==
    /\ \E spec \in ToolModes :
          objs = Put(Put(Empty, S, [labels |-> {}, status |-> {}, deleting |-> FALSE,
                                    spec |-> ServerSpec({})]),
                     T, [labels |-> AppX, status |-> {}, deleting |-> FALSE, spec |-> spec])
    /\ h = Put(Put(Empty, S, NewHandler), T, NewHandler)
    /\ services \in SUBSET {Svc("ns1", "svc")}
    /\ children = Empty
    /\ trail = Put(Empty, S, NewTrail)

NextToolMode ==
    \/ ToolGetService(T)
    \/ ToolResolve(T)
    \/ TriggerList(T)
    \/ TriggerTouch(T)
    \/ ServerStepNoIngress(S)

SpecToolMode == InitToolMode /\ [][NextToolMode]_vars

NameSet(spec) == spec.name # None

ToolsSet(spec) == spec.tools # {} /\ The(spec.tools) # <<>>

\* C8: MCPTool mode exclusivity.  With exactly one of name and tools (a
\* non-empty list) set, validation accepts the spec and the pass does not
\* raise; with both set or with neither set, the pass raises, and it has
\* then written no status field, looked up no Service and not invoked the
\* trigger.
C8_ModeExclusivity ==
    T \in DOMAIN objs =>
        IF NameSet(objs[T].spec) # ToolsSet(objs[T].spec)
        THEN h[T].outcome # "raised"
        ELSE /\ objs[T].status = {}
             /\ h[T].patch = {}
             /\ h[T].lookups = <<>>
             /\ ~h[T].triggered
             /\ h[T].pc = "idle"
             /\ h[T].outcome \in {"none", "raised"}

C8_Witness ==
    /\ T \in DOMAIN objs
    /\ NameSet(objs[T].spec) /\ ToolsSet(objs[T].spec)
    /\ h[T].outcome = "raised"
    /\ objs[T].status = {}
    /\ objs[S].status # {}

(***************************************************************************)
(* SpecResource: the MCPResource reconcile over content and operations.    *)
(* R is in the store with content absent, blank or not, and operations     *)
(* absent, empty or not; each of the two Services exists or not.           *)
(***************************************************************************)
Contents ==
    {{}} \cup
    {Some([text |-> t, blob |-> b]) :
        t \in {{}, Some(<<>>), Some(<<" ">>), Some(<<"a">>), Some(<<" ", "a", " ">>)},
        b \in {{}, Some(<<" ">>), Some(<<"b">>)}}

Operation(name) == [method |-> "GET", service |-> Ref(name, 80, NoPath)]

Operations ==
    {{}, Some(<<>>), Some(<<Operation("svc")>>), Some(<<Operation("svc"), Operation("db")>>)}

InitResource ==
    /\ \E c \in Contents : \E o \in Operations :
          objs = Put(Empty, R, [labels |-> AppX, status |-> {}, deleting |-> FALSE,
                                spec |-> [name |-> "r", content |-> c, operations |-> o]])
    /\ h = Put(Empty, R, NewHandler)
    /\ services \in SUBSET {Svc("ns1", "svc"), Svc("ns1", "db")}
    /\ children = Empty
    /\ trail = Empty

NextResource == ReconcileResource(R)

SpecResource == InitResource /\ [][NextResource]_vars

\* the optional string holds a character that is not whitespace
NonBlank(o) == o # {} /\ \E i \in 1..Len(The(o)) : The(o)[i] \notin Whitespace

\* C9: resource precedence.  For an MCPResource with content whose text is
\* not blank and with operations set, the pass writes ready = true, reason
\* ContentValid and operationCount = 0, and has looked up no Service,
\* whether or not the Services of the operations exist.
C9_ContentPrecedence ==
    (R \in DOMAIN objs /\ h[R].outcome # "none"
        /\ objs[R].spec.content # {} /\ NonBlank(The(objs[R].spec.content).text)
        /\ objs[R].spec.operations # {})
    => /\ objs[R].status =
            Some([ready |-> TRUE, operationCount |-> 0,
                  conditions |-> <<[type |-> "Ready", status |-> "True",
                                    reason |-> "ContentValid"]>>])
       /\ h[R].lookups = <<>>

C9_Witness ==
    /\ R \in DOMAIN objs /\ h[R].outcome = "ok"
    /\ objs[R].spec.content = Some([text |-> Some(<<" ", "a", " ">>), blob |-> {}])
    /\ objs[R].spec.operations = Some(<<Operation("svc"), Operation("db")>>)
    /\ services = {Svc("ns1", "svc")}
    /\ The(objs[R].status).operationCount = 0

(***************************************************************************)
(* SpecEndpoint: the single-tool endpoint over generated paths.  T is a    *)
(* single-tool MCPTool on Service svc:8080, which exists; its service.path *)
(* is "/" followed by up to MaxPathPieces pieces.  No MCPServer exists.    *)
(***************************************************************************)
PathPieces ==
    {<<"/">>, <<"/", "/">>, <<":">>, <<":", "/", "/">>, <<"search">>, <<"items">>}

RECURSIVE PathTails(_)
PathTails(n) ==
    IF n = 0 THEN {<<>>}
    ELSE LET shorter == PathTails(n - 1)
         IN  shorter \cup {t \o p : t \in shorter, p \in PathPieces}

InitEndpoint ==
    /\ \E tail \in PathTails(MaxPathPieces) :
          objs = Put(Empty, T, [labels |-> AppX, status |-> {}, deleting |-> FALSE,
                                spec |-> [name |-> "echo", tools |-> {},
                                          service |-> Ref("svc", 8080, <<"/">> \o tail)]])
    /\ h = Put(Empty, T, NewHandler)
    /\ services = {Svc("ns1", "svc")}
    /\ children = Empty
    /\ trail = Empty

NextEndpoint ==
    \/ ToolGetService(T)
    \/ ToolResolve(T)
    \/ TriggerList(T)

SpecEndpoint == InitEndpoint /\ [][NextEndpoint]_vars

Base8080 == <<"http", ":", "/", "/", "svc", ".", "ns1", ".svc.cluster.local", ":", "8080">>

\* s without every "/" that follows a "/"
RECURSIVE Squeeze(_, _)
Squeeze(s, i) ==
    IF i > Len(s) THEN <<>>
    ELSE IF i > 1 /\ s[i] = "/" /\ s[i - 1] = "/" THEN Squeeze(s, i + 1)
    ELSE <<s[i]>> \o Squeeze(s, i + 1)

\* s with every run of "/" collapsed, the first "://" alone kept as it is
CollapsedButFirstScheme(s) ==
    LET i == CHOOSE j \in 1..Len(s) :
                 OccursAt(s, j, <<":", "/", "/">>)
                 /\ \A l \in 1..(j - 1) : ~OccursAt(s, l, <<":", "/", "/">>)
    IN  Squeeze(SubSeq(s, 1, i - 1), 1) \o <<":", "/", "/">>
            \o Squeeze(SubSeq(s, i + 3, Len(s)), 1)

\* C11: slash collapsing, as claimed: the resolved endpoint of a single-tool
\* MCPTool is the base endpoint followed by service.path with every run of
\* "/" collapsed to one "/", exactly the first "://" being protected and no
\* later "://" or "//".
C11_SlashCollapse ==
    (T \in DOMAIN objs /\ objs[T].status # {} /\ The(objs[T].status).ready)
    => The(objs[T].status).resolvedEndpoint
          = CollapsedButFirstScheme(Base8080 \o objs[T].spec.service.path)

\* the example of the specification is computed as it says
C11_Example ==
    (T \in DOMAIN objs /\ objs[T].status # {}
        /\ objs[T].spec.service.path = <<"/", "/", "search", "/", "/", "items">>)
    => The(objs[T].status).resolvedEndpoint = Base8080 \o <<"/", "search", "/", "items">>

(***************************************************************************)
(* SpecCounts: one pass of MCPServer S over what it finds.  MCPTool T is   *)
(* single-tool or multi-tool, its service reference complete, without a    *)
(* name, without a port or naming a Service that does not exist; MCPPrompt *)
(* P and MCPResource R are in the store or not; the Deployment of S, if    *)
(* there is one, reports some replicas ready or says nothing.              *)
(***************************************************************************)
ServiceRefs == {Ref("svc", 80, NoPath), Ref(None, 80, NoPath), Ref("svc", 0, NoPath),
                Ref("gone", 80, NoPath)}

ToolShapes ==
    {[EchoTool EXCEPT !.service = ref] : ref \in ServiceRefs}
        \cup {[MultiTool EXCEPT !.service = ref] : ref \in ServiceRefs}

Stored(labels, spec) == [labels |-> labels, status |-> {}, deleting |-> FALSE, spec |-> spec]

\* f with key k bound to v if present is true
PutIf(f, present, k, v) == IF present THEN Put(f, k, v) ELSE f

\* replicas: 1 apiece, the Deployment patched by an earlier pass
DeploymentBefore(ready) ==
    [replicas |-> 1, config_map |-> ConfigMapName("S"), redis_host |-> "mcp-redis",
     owner |-> OwnerRef(S), readyReplicas |-> ready]

InitCounts ==
    /\ \E shape \in ToolShapes : \E hasP \in BOOLEAN : \E hasR \in BOOLEAN :
       \E spec \in SpecsOf(S) :
          objs = PutIf(PutIf(Put(Put(Empty, S, Stored({}, spec)),
                                 T, Stored(AppX, shape)),
                             hasP, P, Stored(AppX, PromptHello)),
                       hasR, R, Stored(AppX, ResourceDoc))
    /\ h = [k \in DOMAIN objs |-> NewHandler]
    /\ services = {Svc("ns1", "svc")}
    /\ \E dep \in {"none", "silent", "zero", "one"} :
          children = PutIf(Empty, dep # "none", DeploymentS,
                           DeploymentBefore(CASE dep = "zero" -> Some(0)
                                              [] dep = "one" -> Some(1)
                                              [] OTHER -> {}))
    /\ trail = Put(Empty, S, NewTrail)

NextCounts == ServerStep(S)

SpecCounts == InitCounts /\ [][NextCounts]_vars

\* the number of tools.json entries an MCPTool object should contribute
EntriesDue(spec) ==
    IF spec.service.name = None \/ spec.service.port = 0
       \/ Svc("ns1", spec.service.name) \notin services
    THEN 0
    ELSE IF ToolsSet(spec) THEN Len(The(spec.tools)) ELSE 1

PassDone(k) == k \in DOMAIN objs /\ trail[k].last # {} /\ h[k].pc = "idle"

ReadyInStore ==
    IF DeploymentS \in DOMAIN children /\ children[DeploymentS].readyReplicas # {}
    THEN The(children[DeploymentS].readyReplicas)
    ELSE 0

\* C13: MCPServer readiness, as claimed: after a completed pass the status
\* carries the readyReplicas of the Deployment (0 when the Deployment, its
\* status or the field is absent) and the single condition is
\* {Ready, True, DeploymentReady} exactly when that number is greater than
\* 0, {Ready, False, DeploymentNotReady} otherwise, however many tools
\* failed to resolve.
C13_Readiness ==
    PassDone(S) =>
        LET status == The(objs[S].status)
        IN  /\ status.readyReplicas = ReadyInStore
            /\ status.conditions =
                 <<IF ReadyInStore > 0
                   THEN [type |-> "Ready", status |-> "True", reason |-> "DeploymentReady"]
                   ELSE [type |-> "Ready", status |-> "False",
                         reason |-> "DeploymentNotReady"]>>

(***************************************************************************)
(* SpecFailure: passes of MCPServer S that the store may reject.  S is     *)
(* created, MCPTool T comes and goes beside it (Service svc exists), and   *)
(* any store call of a pass of S may be rejected.                          *)
(***************************************************************************)
NextFailure ==
    \/ \E spec \in SpecsOf(S) : Create(S, {}, spec)
    \/ Quiescent /\ Create(T, AppX, EchoTool)
    \/ Quiescent /\ Delete(T)
    \/ ServerStep(S)
    \/ ServerRejected(S)
    \/ ToolStep(T)

SpecFailure == InitE2E /\ [][NextFailure]_vars

\* the status the last completed pass of k wrote, if there was one
LastStatus(k) == IF trail[k].last = {} THEN {} ELSE Some(The(trail[k].last).status)

\* C14: no partial status on hard failure.  When a store call of a pass of
\* S is rejected, the pass ends raising with an empty status patch, and the
\* status of S is at all times the one written by its last completed pass
\* (none before the first).
C14_NoPartialStatus ==
    S \in DOMAIN objs =>
        /\ objs[S].status = LastStatus(S)
        /\ h[S].outcome = "raised" => h[S].patch = {}

C14_Witness ==
    /\ S \in DOMAIN objs /\ T \in DOMAIN objs
    /\ h[S].outcome = "raised" /\ h[S].pc = "idle"
    /\ trail[S].last # {}
    /\ The(objs[S].status).toolCount = 0
    /\ ConfigMapS \in DOMAIN children /\ Len(ToolsJson) = 1

(***************************************************************************)
(* SpecNotFound: the MCPTool reconcile and the Service it refers to.  T,   *)
(* single-tool or multi-tool, refers to Service svc of its own namespace   *)
(* (by default or by name) or of namespace ns2; svc exists in ns1, in ns2, *)
(* in both or in neither.  MCPServer S is in the store.                    *)
(***************************************************************************)
ToolsReferring ==
    {[shape EXCEPT !.service.namespace = ns] :
        shape \in {EchoTool, MultiTool}, ns \in {None, "ns1", "ns2"}}

InitNotFound ==
    /\ \E spec \in ToolsReferring :
          objs = Put(Put(Empty, S, Stored({}, ServerSpec({}))), T, Stored(AppX, spec))
    /\ h = [k \in DOMAIN objs |-> NewHandler]
    /\ services \in SUBSET {Svc("ns1", "svc"), Svc("ns2", "svc")}
    /\ children = Empty
    /\ trail = Put(Empty, S, NewTrail)

NextNotFound ==
    \/ ToolGetService(T)
    \/ ToolResolve(T)
    \/ TriggerList(T)
    \/ TriggerTouch(T)
    \/ ServerStepNoIngress(S)

SpecNotFound == InitNotFound /\ [][NextNotFound]_vars

\* the Service the MCPTool refers to, in the effective namespace
Referred(spec) ==
    Svc(IF spec.service.namespace = None THEN "ns1" ELSE spec.service.namespace,
        spec.service.name)

U == Key("MCPServer", "ns1", "U")

V == Key("MCPServer", "ns2", "S")

SelectorAppY == [matchLabels |-> Some(<<<<"app", "y">>>>), matchExpressions |-> {}]

InitTrigger ==
    /\ objs = Put(Put(Put(Put(Empty, S, Stored({}, ServerSpec({}))),
                          U, Stored({}, [ServerSpec({}) EXCEPT
                                            !.toolSelector = Some(SelectorAppY)])),
                      V, Stored({}, ServerSpec({}))),
                  T, Stored(AppX, EchoTool))
    /\ h = [k \in DOMAIN objs |-> NewHandler]
    /\ services = {Svc("ns1", "svc")}
    /\ children = Empty
    /\ trail = [k \in {S, U, V} |-> NewTrail]

\* the scenario gives the servers a single worker: a pass of one server
\* runs while no other server is in the middle of its pass
OneAtATime(s) == \A o \in {S, U, V} \ {s} : o \in DOMAIN h => h[o].pc = "idle"

NextTrigger ==
    \/ ToolStep(T)
    \/ Delete(T)
    \/ \E s \in {S, U, V} : OneAtATime(s) /\ ServerStepNoIngress(s)
    \/ \E s \in {S, U} : Delete(s)
    \/ \E s \in {S, U} : delete_mcpserver(s)
    \/ \E s \in {S, U} : Removed(s)

SpecTrigger == InitTrigger /\ [][NextTrigger]_vars

\* the MCPServers of a namespace that are in the store
ServersIn(ns) == {k \in DOMAIN objs : k.kind = "MCPServer" /\ k.ns = ns}

\* the handlers of the objects other than k and the servers in ss are as
\* they were
OthersKept(k, ss) ==
    \A o \in DOMAIN h : (o # k /\ o \notin ss) => (o \in DOMAIN h' /\ h'[o] = h[o])

\* C16: best-effort fan-out.  The trigger invoked by T's handler lists
\* exactly the MCPServers of T's namespace, whatever their selectors; it
\* then takes them one by one: a server still in the store gets the
\* annotation patch (an update event), a server that is gone makes the
\* patch fail, and in both cases the trigger goes on with the rest of the
\* list; it ends by returning normally, never by raising, and no server
\* outside the list is patched.
C16_FanOutStep ==
    (T \in DOMAIN h /\ T \in DOMAIN h') =>
    /\ (h[T].pc = "trigger" /\ h'[T].pc = "touch")
       => /\ SeqToSet(h'[T].todo) = ServersIn("ns1")
          /\ Len(h'[T].todo) = Cardinality(ServersIn("ns1"))
    /\ (h[T].pc = "trigger" /\ h'[T].pc = "idle")
       => ServersIn("ns1") = {} /\ h'[T].outcome = "ok"
    /\ (h[T].pc = "touch" /\ h'[T].todo # h[T].todo)
       => LET s == Head(h[T].todo)
          IN  /\ s \in DOMAIN objs => h'[s].pending
              /\ OthersKept(T, {s})
              /\ IF Tail(h[T].todo) = <<>>
                 THEN h'[T].pc = "idle" /\ h'[T].outcome = "ok"
                 ELSE h'[T].pc = "touch" /\ h'[T].todo = Tail(h[T].todo)

C16_FanOut == [][C16_FanOutStep]_vars

\* T's trigger listed S and U, S was removed before its patch, and U was
\* patched all the same before the handler returned normally
C16_Witness ==
    /\ T \in DOMAIN objs /\ h[T].pc = "idle" /\ h[T].triggered /\ h[T].outcome = "ok"
    /\ h[T].missed = {S}
    /\ U \in DOMAIN objs /\ h[U].pending /\ h[U].outcome = "ok"
    /\ V \in DOMAIN objs /\ ~h[V].pending

\* the handler of k took a step: it picked up its event, moved on, or
\* went down the trigger's list
Advanced(k) ==
    /\ k \in DOMAIN h /\ k \in DOMAIN h'
    /\ \/ h'[k].pc # h[k].pc
       \/ h'[k].todo # h[k].todo
       \/ h[k].pending /\ ~h'[k].pending

\* in a step of k's handler the store changes at most in k's status and in
\* children whose owner reference names k
OwnWritesOnly(k) ==
    /\ DOMAIN objs' = DOMAIN objs
    /\ \A o \in DOMAIN objs \ {k} : objs'[o] = objs[o]
    /\ objs'[k] = [objs[k] EXCEPT !.status = objs'[k].status]
    /\ DOMAIN children \subseteq DOMAIN children'
    /\ \A ck \in DOMAIN children' :
          (ck \notin DOMAIN children \/ children'[ck] # children[ck])
          => /\ k.kind = "MCPServer" /\ ck.ns = k.ns
             /\ children'[ck].owner.name = k.name
             /\ children'[ck].owner.uid = metadata_uid(k)
    /\ services' = services

\* the annotation patch of the trigger: the next server of the list of k's
\* handler, an MCPServer of k's namespace, gets an update event
Nudged(k, o) ==
    /\ k.kind \in {"MCPTool", "MCPPrompt", "MCPResource"}
    /\ h[k].pc = "touch" /\ o = Head(h[k].todo)
    /\ o.kind = "MCPServer" /\ o.ns = k.ns
    /\ h'[o] = [h[o] EXCEPT !.pending = TRUE]

\* C17, as claimed: in every step of a reconcile or delete handler the only
\* objects written are the status of the handler's own object and the
\* children it owns by owner reference; no other custom resource is
\* written, so none gets an event from the step.
C17_WriteFootprintStep ==
    \A k \in DOMAIN h :
        Advanced(k) => /\ OwnWritesOnly(k)
                       /\ \A o \in DOMAIN h \ {k} : h'[o] = h[o]

C17_FootprintWithTriggerStep ==
    \A k \in DOMAIN h :
        Advanced(k) => /\ OwnWritesOnly(k)
                       /\ \A o \in DOMAIN h \ {k} : h'[o] = h[o] \/ Nudged(k, o)

C18_SingleCondition ==
    \A k \in DOMAIN objs :
        objs[k].status # {} => Len(The(objs[k].status).conditions) = 1

(***************************************************************************)
(* SpecOwned: the life of a server and its children.  From the states of   *)
(* InitCounts, S is reconciled, may be deleted at any moment, and is       *)
(* removed once its delete handler has returned; the garbage collector     *)
(* then removes the children that named it as owner.                       *)
(***************************************************************************)
NextOwned ==
    \/ ServerStep(S)
    \/ Delete(S)
    \/ delete_mcpserver(S)
    \/ Removed(S)
    \/ \E ck \in DOMAIN children : Collected(ck)

SpecOwned == InitCounts /\ [][NextOwned]_vars

\* the children an MCPServer pass keeps for S
ChildrenOfS(ingress) ==
    {ConfigMapS, DeploymentS, CKey("Service", "ns1", <<"mcp-server-", "S">>)}
        \cup (IF ingress THEN {CKey("Ingress", "ns1", <<"mcp-server-", "S">>)} ELSE {})

\* C19: owned children.  When a pass of S ends successfully the store holds
\* ConfigMap mcp-server-S-config, Deployment mcp-server-S and Service
\* mcp-server-S, and Ingress mcp-server-S when the spec sets ingress, in
\* S's namespace, each with an owner reference of kind MCPServer naming S
\* and S's uid with controller = true; a step of S's delete handler
\* changes nothing in the store.
C19_OwnedChildrenStep ==
    /\ (PassEnds(S) /\ h'[S].outcome = "ok")
       => \A ck \in ChildrenOfS(objs[S].spec.ingress # {}) :
             /\ ck \in DOMAIN children'
             /\ children'[ck].owner = [kind |-> "MCPServer", name |-> "S",
                                       uid |-> <<"uid", "ns1", "S">>,
                                       controller |-> TRUE]
    /\ (S \in DOMAIN h /\ S \in DOMAIN h' /\ h'[S] # h[S] /\ h'[S].mode = "delete")
       => UNCHANGED <<objs, children, services>>

C19_OwnedChildren == [][C19_OwnedChildrenStep]_vars

\* S, whose pass wrote the four children, is gone after its delete handler
\* returned, and the garbage collector has removed all the children but the
\* Ingress
C19_Witness ==
    /\ S \notin DOMAIN objs
    /\ trail[S].last # {}
    /\ Len(The(trail[S].last).wrote) = 4
    /\ DOMAIN children = {CKey("Ingress", "ns1", <<"mcp-server-", "S">>)}
    /\ children[CKey("Ingress", "ns1", <<"mcp-server-", "S">>)].owner.uid
         = <<"uid", "ns1", "S">>

(***************************************************************************)
(* SpecIngress: the Ingress of a server.  S has no ingress in its spec or  *)
(* one with or without host and tlsSecretName and with pathPrefix /mcp or  *)
(* /; an Ingress written by an earlier pass exists or not; S is reconciled *)
(* and, touched, reconciled again.                                         *)
(***************************************************************************)
Ingresses ==
    {[host |-> host, tlsSecretName |-> tls, pathPrefix |-> path] :
        host \in {None, "mcp.example"}, tls \in {None, "mcp-tls"},
        path \in {<<"/", "mcp">>, <<"/">>}}

IngressS == CKey("Ingress", "ns1", ChildName("S"))

InitIngress ==
    /\ \E ingress \in {{}} \cup {Some(i) : i \in Ingresses} :
          objs = Put(Put(Empty, S, Stored({}, ServerSpec(ingress))),
                     T, Stored(AppX, EchoTool))
    /\ h = [k \in DOMAIN objs |-> NewHandler]
    /\ services = {Svc("ns1", "svc")}
    /\ \E before \in BOOLEAN :
          children = PutIf(Empty, before, IngressS,
                           [host |-> "old.example", path |-> <<"/", "old">>,
                            service_name |-> ChildName("S"), service_port |-> 8080,
                            tls |-> Some("old-tls"), owner |-> OwnerRef(S)])
    /\ trail = Put(Empty, S, NewTrail)

NextIngress ==
    \/ ServerStep(S)
    \/ Idle(S) /\ ~h[S].pending /\ Touch(S)

SpecIngress == InitIngress /\ [][NextIngress]_vars

\* the create-or-update calls for an Ingress among the calls of a pass
IngressCalls(wrote) == {i \in 1..Len(wrote) : wrote[i][1] = "Ingress"}

\* C20: ingress is optional.  A pass of S whose spec sets ingress makes
\* exactly one create-or-update call for an Ingress, and the Ingress
\* mcp-server-S then has the spec's host, pathPrefix and tlsSecretName and
\* the backend Service mcp-server-S, port 8080; a pass of S whose spec sets
\* no ingress makes no Ingress call, at any point of the pass.
C20_IngressOptional ==
    LET ingress == objs[S].spec.ingress
    IN  /\ ingress = {} => IngressCalls(h[S].loc.wrote) = {}
        /\ Cardinality(IngressCalls(h[S].loc.wrote)) <= 1
        /\ trail[S].last # {} =>
             LET wrote == The(trail[S].last).wrote
             IN  /\ Cardinality(IngressCalls(wrote)) = IF ingress # {} THEN 1 ELSE 0
                 /\ ingress # {} =>
                      /\ IngressS \in DOMAIN children
                      /\ children[IngressS].host = The(ingress).host
                      /\ children[IngressS].path = The(ingress).pathPrefix
                      /\ children[IngressS].tls =
                           (IF The(ingress).tlsSecretName = None THEN {}
                            ELSE {The(ingress).tlsSecretName})
                      /\ children[IngressS].service_name = <<"mcp-server-", "S">>
                      /\ children[IngressS].service_port = 8080

\* a second pass of S, with host, TLS secret and pathPrefix / in the spec,
\* has replaced the Ingress an earlier pass had written
C20_Witness ==
    /\ PassDone(S)
    /\ The(trail[S].last).wrote
         = <<<<"ConfigMap", "update">>, <<"Ingress", "update">>,
             <<"Deployment", "update">>, <<"Service", "update">>>>
    /\ children[IngressS].host = "mcp.example"
    /\ children[IngressS].path = <<"/">>
    /\ children[IngressS].tls = {"mcp-tls"}

\* S has no ingress in its spec: its pass made three calls, none for an
\* Ingress, and left the Ingress of the earlier pass as it was
C20_WitnessAbsent ==
    /\ PassDone(S)
    /\ objs[S].spec.ingress = {}
    /\ Len(The(trail[S].last).wrote) = 3
    /\ IngressS \in DOMAIN children /\ children[IngressS].host = "old.example"

ServiceS == CKey("Service", "ns1", ChildName("S"))

\* a Service pass of S: the step that ends with the Service written or the
\* write rejected
ServiceWritten == S \in DOMAIN h /\ h[S].pc = "service" /\ h'[S].pc # "service"

\* C21: ClusterIP preservation.  The Service write of a pass of S, when
\* Service mcp-server-S exists, is a replace the store accepts (its body
\* carries the resourceVersion and the clusterIP read just before), and the
\* Service keeps its clusterIP; when the Service does not exist the write is
\* a create.  In no step does an existing Service lose or change the
\* clusterIP it was given.
C21_ClusterIPKeptStep ==
    /\ ServiceS \in DOMAIN children
       => /\ ServiceS \in DOMAIN children'
          /\ children'[ServiceS].cluster_ip = children[ServiceS].cluster_ip
          /\ children[ServiceS].cluster_ip # NoIp
    /\ ServiceWritten
       => /\ h'[S].pc = "status"
          /\ ServiceS \in DOMAIN children'
          /\ h'[S].loc.wrote[Len(h'[S].loc.wrote)]
               = <<"Service", IF ServiceS \in DOMAIN children THEN "update" ELSE "create">>
          /\ ServiceS \in DOMAIN children
             => children'[ServiceS].resource_version # children[ServiceS].resource_version

C21_ClusterIPKept == [][C21_ClusterIPKeptStep]_vars

\* the Service of S after its third write: created by the first pass,
\* replaced by the second and the third, with the clusterIP of the create
C21_Witness ==
    /\ PassDone(S)
    /\ The(trail[S].last).wrote[Len(The(trail[S].last).wrote)] = <<"Service", "update">>
    /\ children[ServiceS].cluster_ip = <<"ip-of-", ChildName("S")>>
    /\ children[ServiceS].resource_version = "rv1"

(***************************************************************************)
(* SpecSelector: the selector string over generated selectors.  S has a    *)
(* toolSelector with none, one or two matchLabels entries and up to        *)
(* MaxExpressions matchExpressions entries (In and NotIn with a values     *)
(* list, Exists, DoesNotExist); MCPTool T carries one of four label sets.  *)
(***************************************************************************)
MaxExpressions == 2

Expressions ==
    {[key |-> "env", operator |-> "In", values |-> Some(<<"dev", "qa">>)],
     [key |-> "env", operator |-> "NotIn", values |-> Some(<<"qa">>)],
     [key |-> "env", operator |-> "In", values |-> Some(<<>>)],
     [key |-> "tier", operator |-> "Exists", values |-> {}],
     [key |-> "tier", operator |-> "DoesNotExist", values |-> {}]}

\* the sequences of at most n distinct expressions
RECURSIVE ExpressionLists(_)
ExpressionLists(n) ==
    IF n = 0 THEN {<<>>}
    ELSE LET shorter == ExpressionLists(n - 1)
         IN  shorter \cup {Append(es, e) : es \in shorter, e \in Expressions}

Selectors ==
    {[matchLabels |-> ls, matchExpressions |-> es] :
        ls \in {{}, Some(<<>>), Some(<<<<"app", "x">>>>),
                Some(<<<<"app", "x">>, <<"tier", "web">>>>)},
        es \in {{}} \cup {Some(l) : l \in {m \in ExpressionLists(MaxExpressions) :
                                             \A i, j \in 1..Len(m) : m[i] = m[j] => i = j}}}

LabelSets ==
    {{}, AppX, {<<"app", "x">>, <<"env", "dev">>},
     {<<"app", "x">>, <<"env", "qa">>, <<"tier", "web">>}}

InitSelector ==
    /\ \E selector \in Selectors : \E labels \in LabelSets :
          objs = Put(Put(Empty, S, Stored({}, [ServerSpec({}) EXCEPT
                                                  !.toolSelector = Some(selector)])),
                     T, Stored(labels, EchoTool))
    /\ h = [k \in DOMAIN objs |-> NewHandler]
    /\ services = {Svc("ns1", "svc")}
    /\ children = Empty
    /\ trail = Put(Empty, S, NewTrail)

NextSelector == ServerStepNoIngress(S)

SpecSelector == InitSelector /\ [][NextSelector]_vars

\* the clause the cluster's selector syntax has for a matchExpressions entry
ClauseOf(e) ==
    LET vs == IF e.values = {} THEN <<>> ELSE The(e.values)
        listed == CASE Len(vs) = 0 -> <<>>
                    [] Len(vs) = 1 -> <<vs[1]>>
                    [] OTHER -> <<vs[1], ",", vs[2]>>
    IN  CASE e.operator = "In" -> <<e.key, " in (">> \o listed \o <<")">>
          [] e.operator = "NotIn" -> <<e.key, " notin (">> \o listed \o <<")">>
          [] e.operator = "Exists" -> <<e.key>>
          [] e.operator = "DoesNotExist" -> <<"!", e.key>>

\* the number of places of the sequence that hold x
Count(seq, x) == Cardinality({i \in 1..Len(seq) : seq[i] = x})

\* the labels satisfy the selector (AND of its entries)
Selects(selector, labels) ==
    LET ls == IF selector.matchLabels = {} THEN <<>> ELSE The(selector.matchLabels)
        es == IF selector.matchExpressions = {} THEN <<>> ELSE The(selector.matchExpressions)
        Value(k) == {l[2] : l \in {m \in labels : m[1] = k}}
    IN  /\ \A i \in 1..Len(ls) : <<ls[i][1], ls[i][2]>> \in labels
        /\ \A i \in 1..Len(es) :
              LET vs == IF es[i].values = {} THEN {} ELSE SeqToSet(The(es[i].values))
              IN  CASE es[i].operator = "In" -> Value(es[i].key) \cap vs # {}
                    [] es[i].operator = "NotIn" -> Value(es[i].key) \cap vs = {}
                    [] es[i].operator = "Exists" -> Value(es[i].key) # {}
                    [] es[i].operator = "DoesNotExist" -> Value(es[i].key) = {}

KindsWritten(k) == [i \in 1..Len(h[k].loc.wrote) |-> h[k].loc.wrote[i][1]]

\* the store call a pass makes next, by the calls it has behind it
PassOrder ==
    {<<"idle", "list_prompts">>, <<"list_prompts", "list_resources">>,
     <<"list_resources", "aggregate">>, <<"aggregate", "configmap">>,
     <<"configmap", "ingress">>, <<"configmap", "deployment">>,
     <<"ingress", "deployment">>, <<"deployment", "service">>,
     <<"service", "status">>, <<"status", "idle">>}

\* C23: pass ordering.  A pass of S lists MCPTools, then MCPPrompts, then
\* MCPResources, then writes the ConfigMap, the Ingress if the spec sets
\* one, the Deployment and the Service, then reads the Deployment and
\* populates the status patch: every step of the pass goes to the next call
\* of this order or ends the pass by raising, the children written so far
\* are those the order puts before the next call (the ConfigMap before the
\* Deployment), and the status patch stays empty until the last step.
C23_PassOrderStep ==
    (S \in DOMAIN h /\ S \in DOMAIN h') =>
    /\ h'[S].pc # h[S].pc
       => \/ <<h[S].pc, h'[S].pc>> \in PassOrder
          \/ h'[S].pc = "idle" /\ h'[S].outcome = "raised"
    /\ (h[S].pc = "configmap" /\ h'[S].pc = "ingress") <=>
          (h[S].pc = "configmap" /\ h'[S].pc \notin {"configmap", "idle"}
              /\ The(h[S].spec).ingress # {})
    /\ h'[S].pc # "idle" =>
          /\ h'[S].patch = {}
          /\ KindsWritten(S)' =
                CASE h'[S].pc \in {"list_prompts", "list_resources", "aggregate", "configmap"}
                        -> <<>>
                  [] h'[S].pc = "ingress" -> <<"ConfigMap">>
                  [] h'[S].pc = "deployment" ->
                        <<"ConfigMap">> \o (IF The(h'[S].spec).ingress # {}
                                            THEN <<"Ingress">> ELSE <<>>)
                  [] h'[S].pc = "service" ->
                        <<"ConfigMap">> \o (IF The(h'[S].spec).ingress # {}
                                            THEN <<"Ingress">> ELSE <<>>)
                                        \o <<"Deployment">>
                  [] h'[S].pc = "status" ->
                        <<"ConfigMap">> \o (IF The(h'[S].spec).ingress # {}
                                            THEN <<"Ingress">> ELSE <<>>)
                                        \o <<"Deployment", "Service">>
    /\ (h[S].pc = "status" /\ h'[S].outcome = "ok") => h'[S].patch # {}

C23_PassOrder == [][C23_PassOrderStep]_vars

\* a pass of S with ingress is about to read the Deployment: it has listed
\* T and written the four children, and its status patch is still empty
C23_Witness ==
    /\ S \in DOMAIN h /\ h[S].pc = "status"
    /\ KindsWritten(S) = <<"ConfigMap", "Ingress", "Deployment", "Service">>
    /\ Len(h[S].loc.tools) = 1
    /\ h[S].patch = {}

(***************************************************************************)
(* SpecConcurrent: two servers over one tool.  MCPServers S and U, each    *)
(* with or without ingress, both select app=x in ns1; MCPTool T, labelled  *)
(* app=x, refers to Service svc, which exists.  The two passes interleave  *)
(* freely.                                                                 *)
(***************************************************************************)
InitConcurrent ==
    /\ \E specS \in SpecsOf(S) : \E specU \in SpecsOf(U) :
          objs = Put(Put(Put(Empty, S, Stored({}, specS)), U, Stored({}, specU)),
                     T, Stored(AppX, EchoTool))
    /\ h = [k \in DOMAIN objs |-> NewHandler]
    /\ services = {Svc("ns1", "svc")}
    /\ children = Empty
    /\ trail = [k \in {S, U} |-> NewTrail]

NextConcurrent == ServerStep(S) \/ ServerStep(U)

SpecConcurrent == InitConcurrent /\ [][NextConcurrent]_vars

\* the names of the children of the server named name
NamedFrom(name) == {<<"mcp-server-", name>>, <<"mcp-server-", name, "-config">>}

\* the children the step writes
Written == {ck \in DOMAIN children' : ck \notin DOMAIN children \/ children'[ck] # children[ck]}

\* C24: concurrent servers do not interfere.  In every interleaving of the
\* passes of S and U, which both select T, a step of one server writes only
\* children named from that server's name, so no child is written by both;
\* and once both passes have completed, the tools.json of each holds T's
\* entry and each toolCount is 1.
C24_NoInterferenceStep ==
    /\ \A k \in {S, U} :
          Advanced(k) => \A ck \in Written : ck.ns = k.ns /\ ck.name \in NamedFrom(k.name)
    /\ NamedFrom("S") \cap NamedFrom("U") = {}
    /\ (\A k \in {S, U} : trail'[k].last # {}) =>
          \A k \in {S, U} :
             /\ children'[CKey("ConfigMap", "ns1", <<"mcp-server-", k.name, "-config">>)]
                    .data.tools
                  = <<[name |-> "echo",
                       endpoint |-> <<"http", ":", "/", "/", "svc", ".", "ns1",
                                      ".svc.cluster.local", ":", "80", "/">>]>>
             /\ The(objs'[k].status).toolCount = 1

C24_NoInterference == [][C24_NoInterferenceStep]_vars

\* both passes are under way: S has written its ConfigMap and its
\* Deployment, U its ConfigMap, and both ConfigMaps hold T's entry
C24_Witness ==
    /\ h[S].pc = "service" /\ h[U].pc = "deployment"
    /\ DOMAIN children = {ConfigMapS, DeploymentS,
                          CKey("ConfigMap", "ns1", <<"mcp-server-", "U", "-config">>)}
    /\ \A ck \in DOMAIN children : ck.kind = "ConfigMap" => Len(children[ck].data.tools) = 1

(***************************************************************************)
(* SpecOperations: the operations of an MCPResource.  R, in ns1, has no    *)
(* content and a list of up to MaxOperations operations, each on Service   *)
(* svc or db of R's own namespace (none named) or on db of ns2; each of    *)
(* the three Services exists or not.                                       *)
(***************************************************************************)
MaxOperations == 2

OperationRefs ==
    {Ref("svc", 80, NoPath), Ref("db", 80, NoPath),
     [Ref("db", 80, NoPath) EXCEPT !.namespace = "ns2"]}

RECURSIVE OperationLists(_)
OperationLists(n) ==
    IF n = 0 THEN {<<>>}
    ELSE LET shorter == OperationLists(n - 1)
         IN  shorter \cup {Append(ops, [method |-> "GET", service |-> ref]) :
                              ops \in shorter, ref \in OperationRefs}

InitOperations ==
    /\ \E ops \in OperationLists(MaxOperations) :
          objs = Put(Empty, R, Stored(AppX, [name |-> "r", content |-> {},
                                             operations |-> Some(ops)]))
    /\ h = Put(Empty, R, NewHandler)
    /\ services \in SUBSET {Svc("ns1", "svc"), Svc("ns1", "db"), Svc("ns2", "db")}
    /\ children = Empty
    /\ trail = Empty

NextOperations == ReconcileResource(R)

SpecOperations == InitOperations /\ [][NextOperations]_vars

\* the Service an operation of R refers to
ServiceOf(operation) ==
    Svc(IF operation.service.namespace = None THEN "ns1" ELSE operation.service.namespace,
        operation.service.name)

\* C25: MCPResource operations path.  With content absent and operations
\* present, the pass looks up the Services of the operations in list order,
\* each in the operation's service.namespace or else in R's namespace; it
\* stops at the first absent Service with {Ready, False, ServiceNotFound},
\* and if every Service exists it ends with {Ready, True, OperationsValid};
\* operationCount is the number of operations in both cases.
C25_OperationsPath ==
    LET ops == The(objs[R].spec.operations)
        absent == {i \in 1..Len(ops) : ServiceOf(ops[i]) \notin services}
        first == CHOOSE i \in absent : \A j \in absent : i <= j
    IN  (h[R].outcome # "none" /\ ops # <<>>) =>
           /\ h[R].outcome = "ok"
           /\ The(objs[R].status).operationCount = Len(ops)
           /\ absent # {} =>
                /\ h[R].lookups = [i \in 1..first |-> ServiceOf(ops[i])]
                /\ ~The(objs[R].status).ready
                /\ The(objs[R].status).conditions =
                      <<[type |-> "Ready", status |-> "False", reason |-> "ServiceNotFound"]>>
           /\ absent = {} =>
                /\ h[R].lookups = [i \in 1..Len(ops) |-> ServiceOf(ops[i])]
                /\ The(objs[R].status).ready
                /\ The(objs[R].status).conditions =
                      <<[type |-> "Ready", status |-> "True", reason |-> "OperationsValid"]>>

\* the first operation's Service, db of ns2, is absent while svc of the
\* second exists: one lookup, ServiceNotFound, operationCount 2
C25_Witness ==
    /\ h[R].outcome = "ok"
    /\ Len(The(objs[R].spec.operations)) = 2
    /\ services = {Svc("ns1", "svc"), Svc("ns1", "db")}
    /\ h[R].lookups = <<Svc("ns2", "db")>>
    /\ The(objs[R].status).operationCount = 2
    /\ ~The(objs[R].status).ready

\* C26: readiness by presence.  After a pass of R: with operations and
\* content both absent the status is ready = false, operationCount = 0,
\* InvalidSpec; with content present ready is true (ContentValid) exactly when
\* text or blob holds something other than whitespace, and false
\* (EmptyContent) otherwise; and ready = true occurs only with such content
\* or, without content, with operations whose Services all exist.
C26_ReadyByPresence ==
    LET spec == objs[R].spec
        st == The(objs[R].status)
        Reason(status, reason) == <<[type |-> "Ready", status |-> status, reason |-> reason]>>
        filled == NonBlank(The(spec.content).text) \/ NonBlank(The(spec.content).blob)
        resolving ==
            /\ spec.operations # {} /\ The(spec.operations) # <<>>
            /\ \A i \in 1..Len(The(spec.operations)) :
                  Svc("ns1", The(spec.operations)[i].service.name) \in services
    IN  h[R].outcome # "none" =>
           /\ objs[R].status # {}
           /\ (spec.operations = {} /\ spec.content = {}) =>
                 st = [ready |-> FALSE, operationCount |-> 0,
                       conditions |-> Reason("False", "InvalidSpec")]
           /\ spec.content # {} =>
                 /\ st.ready = filled
                 /\ st.conditions = IF filled THEN Reason("True", "ContentValid")
                                    ELSE Reason("False", "EmptyContent")
           /\ st.ready => IF spec.content # {} THEN filled ELSE resolving

\* a resource whose content is whitespace only, text and blob, and whose
\* operations would all resolve, is not ready: EmptyContent
C26_Witness ==
    /\ h[R].outcome = "ok"
    /\ objs[R].spec.content = Some([text |-> Some(<<" ">>), blob |-> Some(<<" ">>)])
    /\ objs[R].spec.operations = Some(<<Operation("svc")>>)
    /\ services = {Svc("ns1", "svc"), Svc("ns1", "db")}
    /\ ~The(objs[R].status).ready
    /\ The(objs[R].status).conditions[1].reason = "EmptyContent"

\* name a comes before name b in lexicographic order
Before(a, b) ==
    \E i \in 1..Len(b) :
        /\ i - 1 <= Len(a) /\ SubSeq(a, 1, i - 1) = SubSeq(b, 1, i - 1)
        /\ i > Len(a) \/ Ord(a[i]) < Ord(b[i])

\* the names of a set, each at the place given by the number of names
\* before it
Ranked(names) ==
    [i \in 1..Cardinality(names) |->
        CHOOSE n \in names : Cardinality({m \in names : Before(m, n)}) = i - 1]

\* C27: prompt failure reason precedence.  The status an MCPPrompt pass
\* writes has lastValidationTime set on every outcome; when the template
\* refers to a name that is not declared the reason is UndeclaredVariables,
\* whether or not declared names are unused, and the message lists the
\* undeclared names in lexicographic order; the reason is UnusedVariables
\* exactly when every name referred to is declared and some declared name is
\* not referred to, and the message then lists those in lexicographic order.
C27_ReasonPrecedence ==
    LET st == The(objs[P].status)
        cond == st.conditions[1]
        referred == Placeholders(objs[P].spec.template)
        declared == SeqToSet(objs[P].spec.variables)
        undeclared == referred \ declared
        unused == declared \ referred
    IN  objs[P].status # {} =>
           /\ "lastValidationTime" \in DOMAIN st /\ st.lastValidationTime = now
           /\ undeclared # {} =>
                 /\ cond.reason = "UndeclaredVariables"
                 /\ cond.message = <<"Template uses undeclared variables: ">>
                                      \o Join(Ranked(undeclared), <<",", " ">>)
           /\ cond.reason = "UnusedVariables" <=> (undeclared = {} /\ unused # {})
           /\ cond.reason = "UnusedVariables" =>
                 cond.message = <<"Declared variables not used in template: ">>
                                   \o Join(Ranked(unused), <<",", " ">>)
           /\ cond.reason = "TemplateValid" <=> (undeclared = {} /\ unused = {})

\* {{b}}{{a}} with the one declared name ab: a and b are undeclared, ab is
\* unused, and the reason is UndeclaredVariables with "a, b"
C27_Witness ==
    /\ objs[P].status # {}
    /\ objs[P].spec.template = <<"{", "{", "b", "}", "}", "{", "{", "a", "}", "}">>
    /\ objs[P].spec.variables = <<<<"a", "b">>>>
    /\ The(objs[P].status).conditions[1].reason = "UndeclaredVariables"
    /\ The(objs[P].status).conditions[1].message =
          <<"Template uses undeclared variables: ", "a", ",", " ", "b">>

\* a template without placeholders and the declared names b, ab, _ and a:
\* UnusedVariables with "_, a, ab, b"
C27_WitnessUnused ==
    /\ objs[P].status # {}
    /\ objs[P].spec.variables = <<<<"b">>, <<"a", "b">>, <<"_">>, <<"a">>>>
    /\ The(objs[P].status).conditions[1].message =
          <<"Declared variables not used in template: ",
            "_", ",", " ", "a", ",", " ", "a", "b", ",", " ", "b">>

(***************************************************************************)
(* SpecUnconditional: aggregation beside the objects' own reconciles.      *)
(* Server S selects tool T (echo, on Service svc), a prompt P that is      *)
(* valid or refers to an undeclared name, and a resource R with content,   *)
(* with blank content or with an operation on svc.  The four handlers run  *)
(* in any order, svc comes and goes, and S is reconciled again and again.  *)
(***************************************************************************)
PromptBroken ==
    [name |-> "broken", template |-> <<"{", "{", "a", "}", "}">>, variables |-> <<>>]

ResourceBlank ==
    [name |-> "blank", content |-> Some([text |-> Some(<<" ">>), blob |-> {}]),
     operations |-> {}]

InitUnconditional ==
    /\ \E prompt \in {PromptHello, PromptBroken} :
       \E resource \in {ResourceDoc, ResourceBlank, ResourceOps} :
          objs = Put(Put(Put(Put(Empty, S, Stored({}, ServerSpec({}))),
                             T, Stored(AppX, EchoTool)),
                         P, Stored(AppX, prompt)),
                     R, Stored(AppX, resource))
    /\ h = [k \in DOMAIN objs |-> NewHandler]
    /\ services \in SUBSET {Svc("ns1", "svc")}
    /\ children = Empty
    /\ trail = Put(Empty, S, NewTrail)

NextUnconditional ==
    \/ ServerStepNoIngress(S)
    \/ Idle(S) /\ ~h[S].pending /\ Touch(S)
    \/ ToolGetService(T)
    \/ ToolResolve(T)
    \/ TriggerList(T)
    \/ TriggerTouch(T)
    \/ ReconcilePrompt(P)
    \/ ReconcileResource(R)
    \/ ServiceCreated(Svc("ns1", "svc"))
    \/ ServiceDeleted(Svc("ns1", "svc"))

SpecUnconditional == InitUnconditional /\ [][NextUnconditional]_vars

\* the own status of object k reports success
Succeeded(k) ==
    /\ objs[k].status # {}
    /\ IF k.kind = "MCPPrompt" THEN The(objs[k].status).validated
       ELSE The(objs[k].status).ready

C28_UnconditionalStep ==
    /\ (h[S].pc = "aggregate" /\ h'[S].pc = "configmap") =>
          /\ h'[S].loc.prompts_data =
                <<[name |-> objs[P].spec.name, template |-> objs[P].spec.template,
                   variables |-> objs[P].spec.variables]>>
          /\ h'[S].loc.resources_data =
                <<[name |-> objs[R].spec.name, content |-> objs[R].spec.content,
                   operations |-> objs[R].spec.operations]>>
          /\ IF Svc("ns1", "svc") \in services
             THEN Len(h'[S].loc.tools_data) = 1 /\ h'[S].loc.tools_data[1].name = "echo"
             ELSE h'[S].loc.tools_data = <<>>
    /\ (h[S].pc = "configmap" /\ h'[S].pc # "configmap") =>
          children'[ConfigMapS].data =
             [tools |-> h[S].loc.tools_data, prompts |-> h[S].loc.prompts_data,
              resources |-> h[S].loc.resources_data]
    /\ PassEnds(S) =>
          /\ The(objs'[S].status).promptCount = 1
          /\ The(objs'[S].status).resourceCount = 1
          /\ The(objs'[S].status).toolCount = Len(children[ConfigMapS].data.tools)

C28_WitnessLeftOut ==
    /\ h[S].pc = "idle" /\ h[S].outcome = "ok"
    /\ Succeeded(T)
    /\ children[ConfigMapS].data.tools = <<>>

(***************************************************************************)
(* SpecNamespace: the namespace of a service reference.  In ns1, server S  *)
(* selects tool T, single or multi, and resource R with one operation;     *)
(* the service reference of each names no namespace, ns1 or ns2; Service   *)
(* svc exists in ns1, in ns2, in both or in neither.                       *)
(***************************************************************************)
InitNamespace ==
    /\ \E spec \in ToolsReferring : \E ns \in {None, "ns1", "ns2"} :
          objs = Put(Put(Put(Empty, S, Stored({}, ServerSpec({}))),
                         T, Stored(AppX, spec)),
                     R, Stored(AppX, [ResourceOps EXCEPT
                                         !.operations = Some(<<[method |-> "GET",
                                             service |-> [Ref("svc", 80, NoPath)
                                                 EXCEPT !.namespace = ns]]>>)]))
    /\ h = [k \in DOMAIN objs |-> NewHandler]
    /\ services \in SUBSET {Svc("ns1", "svc"), Svc("ns2", "svc")}
    /\ children = Empty
    /\ trail = Put(Empty, S, NewTrail)

NextNamespace ==
    \/ ToolGetService(T)
    \/ ToolResolve(T)
    \/ TriggerList(T)
    \/ TriggerTouch(T)
    \/ ReconcileResource(R)
    \/ ServerStepNoIngress(S)

SpecNamespace == InitNamespace /\ [][NextNamespace]_vars

\* the namespace a reference of an object of ns1 resolves to
Effective(ref) == IF ref.namespace = None THEN "ns1" ELSE ref.namespace

\* the endpoint begins http://<name>.<namespace>.svc.cluster.local
HostOf(endpoint, ref) ==
    /\ Len(endpoint) >= 8
    /\ SubSeq(endpoint, 1, 8) =
          <<"http", ":", "/", "/", ref.name, ".", Effective(ref), ".svc.cluster.local">>

\* C29: effective service namespace.  The MCPTool reconcile, the MCPResource
\* reconcile for its operation and the aggregator of S for each tool entry
\* look the Service up in service.namespace when the reference names one and
\* in the object's own namespace otherwise, and the endpoint resolved has
\* that namespace in its host.
C29_EffectiveNamespace ==
    LET tool == objs[T].spec.service
        operation == The(objs[R].spec.operations)[1].service
        found(ref) == Svc(Effective(ref), ref.name) \in services
    IN  /\ h[T].outcome = "ok" =>
             /\ h[T].lookups # <<>>
             /\ \A i \in 1..Len(h[T].lookups) :
                   h[T].lookups[i] = Svc(Effective(tool), tool.name)
             /\ The(objs[T].status).ready = found(tool)
             /\ found(tool) => HostOf(The(objs[T].status).resolvedEndpoint, tool)
        /\ h[R].outcome = "ok" =>
             /\ h[R].lookups = <<Svc(Effective(operation), operation.name)>>
             /\ The(objs[R].status).ready = found(operation)
        /\ ConfigMapS \in DOMAIN children =>
             /\ ToolsJson # <<>> <=> found(tool)
             /\ \A i \in 1..Len(ToolsJson) : HostOf(ToolsJson[i].endpoint, tool)

\* svc exists in ns2 only and both references name ns2: tool and resource
\* are ready and the entry of tools.json points into ns2
C29_Witness ==
    /\ services = {Svc("ns2", "svc")}
    /\ objs[T].spec.service.namespace = "ns2"
    /\ The(objs[R].spec.operations)[1].service.namespace = "ns2"
    /\ h[T].outcome = "ok" /\ The(objs[T].status).ready
    /\ h[R].outcome = "ok" /\ The(objs[R].status).ready
    /\ ConfigMapS \in DOMAIN children /\ ToolsJson # <<>>
    /\ ToolsJson[1].endpoint[7] = "ns2"

\* svc exists in ns2 only and no reference names a namespace: nothing found
C29_WitnessOwn ==
    /\ services = {Svc("ns2", "svc")}
    /\ objs[T].spec.service.namespace = None
    /\ The(objs[R].spec.operations)[1].service.namespace = None
    /\ h[T].outcome = "ok" /\ ~The(objs[T].status).ready
    /\ h[R].outcome = "ok" /\ ~The(objs[R].status).ready
    /\ ConfigMapS \in DOMAIN children /\ ToolsJson = <<>>

(***************************************************************************)
(* SpecDeployment: the Deployment of a server and other writers.  S is     *)
(* reconciled again and again, the two calls of its Deployment write being *)
(* separate steps that the store may reject; meanwhile another writer      *)
(* creates the Deployment (with two replicas) or deletes it.               *)
(***************************************************************************)
InitDeployment ==
    /\ objs = Put(Empty, S, Stored({}, ServerSpec({})))
    /\ h = Put(Empty, S, NewHandler)
    /\ services = {}
    /\ children = Empty
    /\ trail = Put(Empty, S, NewTrail)

DeploymentCreatedElsewhere(ck) ==
    /\ ck \notin DOMAIN children
    /\ children' = Put(children, ck,
                       [replicas |-> 2, config_map |-> ConfigMapName("S"),
                        redis_host |-> "mcp-redis", owner |-> OwnerRef(S),
                        readyReplicas |-> {}])
    /\ UNCHANGED <<objs, h, services, trail>>

DeploymentDeleted(ck) ==
    /\ ck \in DOMAIN children
    /\ children' = [c \in DOMAIN children \ {ck} |-> children[c]]
    /\ UNCHANGED <<objs, h, services, trail>>

NextDeployment ==
    \/ ServerListTools(S)
    \/ ServerListPrompts(S)
    \/ ServerListResources(S)
    \/ ServerAggregate(S)
    \/ ServerWriteConfigMap(S)
    \/ ServerPatchDeployment(S)
    \/ ServerCreateDeployment(S)
    \/ ServerWriteService(S)
    \/ ServerFinish(S)
    \/ Idle(S) /\ ~h[S].pending /\ Touch(S)
    \/ DeploymentCreatedElsewhere(DeploymentS)
    \/ DeploymentDeleted(DeploymentS)

SpecDeployment == InitDeployment /\ [][NextDeployment]_vars

\* the body the pass of S wants: one replica, adopted by S
Desired(ready) ==
    [replicas |-> 1, config_map |-> ConfigMapName("S"), redis_host |-> "mcp-redis",
     owner |-> OwnerRef(S), readyReplicas |-> ready]

Raises == h'[S].pc = "idle" /\ h'[S].outcome = "raised" /\ children' = children

Answer == h'[S].lookups[Len(h'[S].lookups)]

C30_PatchThenCreateStep ==
    LET existed == DeploymentS \in DOMAIN children
    IN  /\ (h[S].pc = "deployment" /\ h'[S] # h[S]) =>
              /\ h'[S].lookups = <<Answer>> /\ Answer.call = "patch"
              /\ CASE Answer.status = 200 ->
                        /\ existed /\ h'[S].pc = "service"
                        /\ children' = [children EXCEPT ![DeploymentS] =
                                           Desired(children[DeploymentS].readyReplicas)]
                   [] Answer.status = 404 ->
                        ~existed /\ h'[S].pc = "deployment_create" /\ children' = children
                   [] OTHER -> Raises
        /\ (h[S].pc = "deployment_create" /\ h'[S] # h[S]) =>
              /\ h[S].lookups = <<Call("patch", 404)>>
              /\ h'[S].lookups = <<Call("patch", 404), Answer>> /\ Answer.call = "create"
              /\ existed => Raises
              /\ IF Answer.status = 201
                 THEN /\ h'[S].pc = "service"
                      /\ DOMAIN children' = DOMAIN children \cup {DeploymentS}
                      /\ children'[DeploymentS] = Desired({})
                 ELSE Raises

\* C30: createOrUpdateDeployment patches first, with the desired body; it
\* calls create, with the same body, only after the patch answered not-found;
\* every other failure of the patch and every failure of the create, the
\* already-exists of a Deployment that another writer created between the
\* two calls included, ends the pass raising and leaves the Deployment as it
\* was.
C30_PatchThenCreate == [][C30_PatchThenCreateStep]_vars

\* the patch found nothing, another writer created the Deployment, and the
\* create was refused: the pass raised and the other writer's Deployment stays
C30_Witness ==
    /\ h[S].pc = "idle" /\ h[S].outcome = "raised"
    /\ h[S].lookups = <<Call("patch", 404), Call("create", 409)>>
    /\ DeploymentS \in DOMAIN children /\ children[DeploymentS].replicas = 2

\* the patch found nothing and the create went through
C30_WitnessCreated ==
    /\ h[S].pc = "service"
    /\ h[S].lookups = <<Call("patch", 404), Call("create", 201)>>
    /\ children[DeploymentS] = Desired({})

(***************************************************************************)
(* SpecListing: the list calls of a pass against a failing store.  Server  *)
(* S (selector app=x) is reconciled again and again beside tool T, prompt  *)
(* P and resource R, each labelled app=x or app=y; Service svc exists.     *)
(* Each of the three list calls of a pass is answered with 200 or with an  *)
(* error code.                                                             *)
(***************************************************************************)
AppY == {<<"app", "y">>}

InitListing ==
    /\ \E lt \in {AppX, AppY} : \E lp \in {AppX, AppY} : \E lr \in {AppX, AppY} :
          objs = Put(Put(Put(Put(Empty, S, Stored({}, ServerSpec({}))),
                             T, Stored(lt, EchoTool)),
                         P, Stored(lp, PromptHello)),
                     R, Stored(lr, ResourceDoc))
    /\ h = [k \in DOMAIN objs |-> NewHandler]
    /\ services = {Svc("ns1", "svc")}
    /\ children = Empty
    /\ trail = Put(Empty, S, NewTrail)

NextListing ==
    \/ \E code \in ListCodes : ServerListToolsAnswered(S, code)
    \/ \E code \in ListCodes : ServerListPromptsAnswered(S, code)
    \/ \E code \in ListCodes : ServerListResourcesAnswered(S, code)
    \/ ServerAggregate(S)
    \/ ServerWriteConfigMap(S)
    \/ ServerWriteDeployment(S)
    \/ ServerWriteService(S)
    \/ ServerFinish(S)
    \/ Idle(S) /\ ~h[S].pending /\ Touch(S)

SpecListing == InitListing /\ [][NextListing]_vars

\* the specs of the objects of a kind in ns1 that the selector of S selects,
\* in the order of the store
Matching(kind) ==
    LET Selected(name) ==
            /\ Key(kind, "ns1", name) \in DOMAIN objs
            /\ Selects(SelectorAppX, objs[Key(kind, "ns1", name)].labels)
        names == SelectSeq(NameOrder, Selected)
    IN  [i \in 1..Len(names) |-> objs[Key(kind, "ns1", names[i])].spec]

\* what a list call of S has to return: nothing under an error code, the
\* matching objects under 200
Due(kind, call) == IF call.status = 200 THEN Matching(kind) ELSE <<>>

C31_ListStep ==
    /\ (h[S].pc = "idle" /\ h[S].pending /\ h'[S] # h[S]) =>
          /\ h'[S].pc = "list_prompts"
          /\ h'[S].lookups[1].call = "mcptools"
          /\ h'[S].loc.tools = Due("MCPTool", h'[S].lookups[1])
    /\ (h[S].pc = "list_prompts" /\ h'[S] # h[S]) =>
          /\ h'[S].pc = "list_resources"
          /\ h'[S].lookups[2].call = "mcpprompts"
          /\ h'[S].loc.prompts = Due("MCPPrompt", h'[S].lookups[2])
    /\ (h[S].pc = "list_resources" /\ h'[S] # h[S]) =>
          /\ h'[S].pc = "aggregate"
          /\ h'[S].lookups[3].call = "mcpresources"
          /\ h'[S].loc.resources = Due("MCPResource", h'[S].lookups[3])

\* C31: listByLabelSelector returns the empty list and raises nothing when
\* the store answers the list call with an error, whatever the code, and
\* returns the items of the answer, no more and no fewer, when it succeeds:
\* each list call of a pass of S goes on to the next step with that list.
C31_ListNeverRaises == [][C31_ListStep]_vars

\* a pass whose list of tools was answered with 500 and whose list of
\* prompts with 200, T and P both matching: no tool, one prompt
C31_Witness ==
    /\ h[S].pc = "list_resources"
    /\ h[S].lookups = <<Call("mcptools", 500), Call("mcpprompts", 200)>>
    /\ objs[T].labels = AppX /\ objs[P].labels = AppX
    /\ h[S].loc.tools = <<>>
    /\ h[S].loc.prompts = <<PromptHello>>

\* C32: as claimed, whenever the status of T says ready = true its
\* resolvedEndpoint begins with
\* http://{service.name}.{effective namespace}.svc.cluster.local:{port},
\* also when the Service went away between the two reads of the pass.
C32_ReadyWellFormed ==
    (objs[T].status # {} /\ The(objs[T].status).ready) =>
        LET ref == objs[T].spec.service
            endpoint == The(objs[T].status).resolvedEndpoint
        IN  /\ HostOf(endpoint, ref)
            /\ Len(endpoint) >= 10
            /\ SubSeq(endpoint, 9, 10) = <<":", ToString(ref.port)>>

(***************************************************************************)
(* SpecAgreement: the two resolvers of an endpoint.  Server S selects the  *)
(* single-tool MCPTool T on Service svc:8080, which exists throughout; the *)
(* service.path of T is one of a few paths that validation accepts.  Both  *)
(* handlers run, in any order.                                             *)
(***************************************************************************)
AgreementPaths ==
    {NoPath, <<"/">>, <<"/", "search">>, <<"/", "/", "search">>,
     <<"/", "search", "/", "/", "items">>}

InitAgreement ==
    /\ \E path \in AgreementPaths :
          objs = Put(Put(Empty, S, Stored({}, ServerSpec({}))),
                     T, Stored(AppX, [name |-> "echo", tools |-> {},
                                      service |-> Ref("svc", 8080, path)]))
    /\ h = [k \in DOMAIN objs |-> NewHandler]
    /\ services = {Svc("ns1", "svc")}
    /\ children = Empty
    /\ trail = Put(Empty, S, NewTrail)

NextAgreement ==
    \/ ToolGetService(T)
    \/ ToolResolve(T)
    \/ TriggerList(T)
    \/ TriggerTouch(T)
    \/ ServerStepNoIngress(S)

SpecAgreement == InitAgreement /\ [][NextAgreement]_vars

\* C33: as claimed, for a single-tool MCPTool whose Service exists the
\* endpoint S writes for it into tools.json is the resolvedEndpoint the
\* reconcile of T writes into its status, for every path that validation
\* accepts, those with runs of "/" included.
C33_EndpointAgreement ==
    (objs[T].status # {} /\ The(objs[T].status).ready
        /\ ConfigMapS \in DOMAIN children /\ ToolsJson # <<>>)
    => ToolsJson[1].endpoint = The(objs[T].status).resolvedEndpoint

(***************************************************************************)
(* SpecQuiescence: external events and the handler runs they provoke.      *)
(* MCPServer S exists, Service svc exists.  Once the system has settled, a *)
(* user creates, updates (an annotation) or deletes MCPTool T, MCPPrompt P  *)
(* or MCPResource R, all labelled app=x and valid.  Every handler keeps    *)
(* running (kopf's workers).                                               *)
(***************************************************************************)
InitQuiescence ==
    /\ objs = Put(Empty, S, Stored({}, ServerSpec({})))
    /\ h = Put(Empty, S, NewHandler)
    /\ services = {Svc("ns1", "svc")}
    /\ children = Empty
    /\ trail = Put(Empty, S, NewTrail)

NextQuiescence ==
    \/ Quiescent /\ Create(T, AppX, EchoTool)
    \/ Quiescent /\ Create(P, AppX, PromptHello)
    \/ Quiescent /\ Create(R, AppX, ResourceDoc)
    \/ Quiescent /\ \E k \in {T, P, R} : Touch(k)
    \/ Quiescent /\ \E k \in {T, P, R} : Delete(k)
    \/ ServerStepNoIngress(S)
    \/ ToolStep(T)
    \/ PromptStep(P)
    \/ ResourceStep(R)

SpecQuiescence ==
    /\ InitQuiescence /\ [][NextQuiescence]_vars
    /\ WF_vars(ServerStepNoIngress(S)) /\ WF_vars(ToolStep(T))
    /\ WF_vars(PromptStep(P)) /\ WF_vars(ResourceStep(R))

\* no event waits, no handler runs, no object is on its way out
Settled ==
    \A k \in DOMAIN objs : h[k].pc = "idle" /\ ~h[k].pending /\ ~objs[k].deleting

\* a step of the pass of S: the position of its handler changes
PassStep == S \in DOMAIN h /\ S \in DOMAIN h' /\ h'[S].pc # h[S].pc

\* such a step leaves every other object and its handler alone, changes
\* nothing of S but its status, and posts no event for S
C34_ServerFootprintStep ==
    PassStep =>
        /\ DOMAIN objs' = DOMAIN objs
        /\ \A k \in DOMAIN objs \ {S} : objs'[k] = objs[k] /\ h'[k] = h[k]
        /\ [objs'[S] EXCEPT !.status = {}] = [objs[S] EXCEPT !.status = {}]
        /\ h'[S].pending => h[S].pending
        /\ \A ck \in DOMAIN children' :
              (ck \notin DOMAIN children \/ children'[ck] # children[ck])
              => ck \in {ConfigMapS, DeploymentS, CKey("Service", "ns1", ChildName("S"))}

\* C34: quiescence.  A pass of S writes its own status and its own children
\* only: no object of another kind, no annotation of an MCPServer; so the
\* handler runs that a create, update or delete of T, P or R provokes come
\* to an end, and the system is settled again and again.
C34_Quiescence == [][C34_ServerFootprintStep]_vars /\ []<>Settled

\* settled after a fan-out: T was reconciled and triggered S, S aggregated T
C34_Witness ==
    /\ Settled
    /\ T \in DOMAIN objs /\ h[T].triggered /\ h[T].outcome = "ok"
    /\ P \in DOMAIN objs /\ R \in DOMAIN objs
    /\ objs[S].status # {} /\ The(objs[S].status).toolCount >= 1

(***************************************************************************)
(* SpecStale: a tool whose Service goes away.  S, whose Deployment may be  *)
(* there from an earlier life, selects MCPTool T, single or multi, on      *)
(* Service svc.  Once the system has settled svc is deleted,               *)
(* for good, and an update event then makes T reconcile again; nothing     *)
(* else happens from outside.  Every handler keeps running.                *)
(***************************************************************************)
InitStale ==
    /\ \E shape \in {EchoTool, MultiTool} :
          objs = Put(Put(Empty, S, Stored({}, ServerSpec({}))), T, Stored(AppX, shape))
    /\ h = [k \in DOMAIN objs |-> NewHandler]
    /\ services = {Svc("ns1", "svc")}
    /\ \E ready \in {{}, Some(0), Some(1)} :
          children \in {Empty, Put(Empty, DeploymentS, DeploymentBefore(ready))}
    /\ trail = Put(Empty, S, NewTrail)

ToolReconcile(k) ==
    \/ ToolGetService(k)
    \/ ToolResolve(k)
    \/ TriggerList(k)
    \/ TriggerTouch(k)

NextStale ==
    \/ Quiescent /\ ServiceDeleted(Svc("ns1", "svc"))
    \/ Quiescent /\ services = {} /\ The(objs[T].status).ready /\ Touch(T)
    \/ ServerStepNoIngress(S)
    \/ ToolReconcile(T)

SpecStale ==
    /\ InitStale /\ [][NextStale]_vars
    /\ WF_vars(ServerStepNoIngress(S)) /\ WF_vars(ToolReconcile(T))

\* T has been reconciled to ready = false while tools.json of S holds its entry
StaleEntry ==
    /\ h[T].pc = "idle" /\ ~h[T].pending
    /\ objs[T].status # {} /\ ~The(objs[T].status).ready
    /\ ConfigMapS \in DOMAIN children /\ ToolsJson # <<>>

\* C35: as claimed, once T, aggregated before, has been reconciled to
\* ready = false because its Service is gone, S eventually rewrites
\* tools.json without the entry and lowers toolCount to 0, with no further
\* event from outside.
C35_StaleDropped ==
    StaleEntry ~> (/\ ConfigMapS \in DOMAIN children /\ ToolsJson = <<>>
                   /\ objs[S].status # {} /\ The(objs[S].status).toolCount = 0)

\* the answer to the list call of a kind in the last pass of S
Answered(kind) ==
    h[S].lookups[CASE kind = "tools" -> 1 [] kind = "prompts" -> 2 [] kind = "resources" -> 3]

\* C36: a failed discovery is no match.  A pass of S in which a list call
\* was answered with an error still completes; the key of that kind in the
\* ConfigMap is then the empty array, whatever the pass before had put
\* there, and the count of that kind in the status is 0.
C36_FailedDiscovery ==
    /\ h[S].outcome # "raised"
    /\ (h[S].pc = "idle" /\ h[S].outcome = "ok") =>
          LET data == children[ConfigMapS].data
              st == The(objs[S].status)
          IN  /\ Answered("tools").status # 200 => data.tools = <<>> /\ st.toolCount = 0
              /\ Answered("prompts").status # 200 =>
                    data.prompts = <<>> /\ st.promptCount = 0
              /\ Answered("resources").status # 200 =>
                    data.resources = <<>> /\ st.resourceCount = 0

\* after a pass that found T, P and R, a pass whose three list calls all
\* failed has completed: the three keys are empty and the counts are 0
C36_Witness ==
    /\ h[S].pc = "idle" /\ h[S].outcome = "ok"
    /\ objs[T].labels = AppX /\ objs[P].labels = AppX /\ objs[R].labels = AppX
    /\ h[S].lookups = <<Call("mcptools", 500), Call("mcpprompts", 403),
                        Call("mcpresources", 404)>>
    /\ trail[S].beforeStart = FALSE /\ trail[S].sinceStart = FALSE
    /\ children[ConfigMapS].data = [tools |-> <<>>, prompts |-> <<>>, resources |-> <<>>]
    /\ The(objs[S].status).toolCount = 0
    /\ <<"ConfigMap", "update">> \in SeqToSet(The(trail[S].last).wrote)

\* the ConfigMap of a pass whose list of tools failed has just replaced one
\* that held the entry of T
C36_WitnessDiscarded ==
    /\ h[S].pc = "deployment"
    /\ h[S].lookups[1].status = 500
    /\ trail[S].last # {} /\ Len(The(trail[S].last).data.tools) = 1
    /\ children[ConfigMapS].data.tools = <<>>
    /\ The(objs[S].status).toolCount = 1

(***************************************************************************)
(* SpecConvergence: passes of MCPServer S cut short by the store.  S, with *)
(* or without ingress in its spec, and Service svc are in the store;       *)
(* MCPTool T labelled app=x comes and goes between the passes; any write   *)
(* of a pass may be rejected, and kopf retries the pass.                   *)
(***************************************************************************)
InitConvergence ==
    /\ \E spec \in SpecsOf(S) : objs = Put(Empty, S, Stored({}, spec))
    /\ h = Put(Empty, S, NewHandler)
    /\ services = {Svc("ns1", "svc")}
    /\ children = Empty
    /\ trail = Put(Empty, S, NewTrail)

NextConvergence ==
    \/ Idle(S) /\ Create(T, AppX, EchoTool)
    \/ Idle(S) /\ Idle(T) /\ Delete(T)
    \/ ServerStep(S)
    \/ ServerRejected(S)
    \/ ToolStep(T)

SpecConvergence == InitConvergence /\ [][NextConvergence]_vars

\* the children this pass of S has written so far are as it wants them
WrittenSoFar ==
    LET ingress == The(h[S].spec).ingress
        pc == h[S].pc
    IN  /\ pc \in {"ingress", "deployment", "service", "status"} =>
              /\ ConfigMapS \in DOMAIN children
              /\ children[ConfigMapS].data = [tools |-> h[S].loc.tools_data,
                                              prompts |-> h[S].loc.prompts_data,
                                              resources |-> h[S].loc.resources_data]
        /\ (pc \in {"deployment", "service", "status"} /\ ingress # {}) =>
              /\ IngressS \in DOMAIN children
              /\ children[IngressS].host = The(ingress).host
              /\ children[IngressS].path = The(ingress).pathPrefix
        /\ pc \in {"service", "status"} =>
              /\ DeploymentS \in DOMAIN children
              /\ children[DeploymentS].replicas = The(h[S].spec).replicas
              /\ children[DeploymentS].redis_host = The(h[S].spec).redis
        /\ pc = "status" => ServiceS \in DOMAIN children

\* the kinds a pass of S writes before it reaches pc, in order
KindsBefore(pc) ==
    LET ingress == IF The(h[S].spec).ingress # {} THEN <<"Ingress">> ELSE <<>>
    IN  CASE pc = "configmap" -> <<>>
          [] pc = "ingress" -> <<"ConfigMap">>
          [] pc = "deployment" -> <<"ConfigMap">> \o ingress
          [] pc = "service" -> <<"ConfigMap">> \o ingress \o <<"Deployment">>
          [] pc = "status" -> <<"ConfigMap">> \o ingress \o <<"Deployment", "Service">>

\* C37: non-atomic convergence.  When a write of a pass of S is rejected,
\* the pass ends raising; the children it had written stay in the store as
\* it wrote them, the children that come later in the pass were not
\* written by it, and the status of S is that of the last completed pass.
\* A pass that completes leaves every child and the status as the spec and
\* the matching objects ask.
C37_ConvergenceStep ==
    /\ (h[S].pc # "idle" /\ h'[S].outcome = "raised") =>
          /\ children' = children
          /\ WrittenSoFar
          /\ KindsWritten(S) = KindsBefore(h[S].pc)
          /\ objs'[S].status = LastStatus(S)
          /\ trail' = trail
    /\ (h[S].pc = "status" /\ h'[S].outcome = "ok") =>
          /\ WrittenSoFar
          /\ children' = children
          /\ Len(children[ConfigMapS].data.tools) = Len(h[S].loc.tools)
          /\ The(h[S].spec) = objs[S].spec
          /\ KindsWritten(S) = KindsBefore("status")
          /\ objs'[S].status =
               Some(ServerStatus(0, Len(h[S].loc.tools), 0, 0))

C37_Convergence == [][C37_ConvergenceStep]_vars

\* the write of the Deployment was rejected in a pass that had found T: the
\* ConfigMap and the Ingress of that pass are in the store, there is no
\* Deployment and no Service, and S has no status, as before the pass
C37_Witness ==
    /\ T \in DOMAIN objs
    /\ h[S].pc = "idle" /\ h[S].outcome = "raised" /\ h[S].pending
    /\ ConfigMapS \in DOMAIN children /\ Len(ToolsJson) = 1
    /\ IngressS \in DOMAIN children
    /\ DeploymentS \notin DOMAIN children
    /\ ServiceS \notin DOMAIN children
    /\ objs[S].status = {}

\* a pass completed after one that was rejected: the four children are in
\* the store and the status counts T
C37_WitnessConverged ==
    /\ T \in DOMAIN objs
    /\ h[S].pc = "idle" /\ h[S].outcome = "ok"
    /\ {ConfigMapS, IngressS, DeploymentS, ServiceS} \subseteq DOMAIN children
    /\ Len(ToolsJson) = 1
    /\ The(objs[S].status).toolCount = 1
    /\ The(trail[S].last).wrote[1] = <<"ConfigMap", "update">>
    /\ The(trail[S].last).wrote[3] = <<"Deployment", "create">>

(***************************************************************************)
(* SpecLeftover: a server whose spec loses its ingress.  S is in the store *)
(* with ingress in its spec or without; its spec is updated between the    *)
(* passes, ingress set or unset; S may be deleted, and the garbage         *)
(* collector then removes its children.                                    *)
(***************************************************************************)
IngressB == [host |-> "b.example", tlsSecretName |-> "mcp-tls", pathPrefix |-> <<"/">>]

InitLeftover ==
    /\ \E spec \in SpecsOf(S) : objs = Put(Empty, S, Stored({}, spec))
    /\ h = Put(Empty, S, NewHandler)
    /\ services = {Svc("ns1", "svc")}
    /\ children = Empty
    /\ trail = Put(Empty, S, NewTrail)

NextLeftover ==
    \/ \E spec \in SpecsOf(S) \cup {ServerSpec(Some(IngressB))} :
          Idle(S) /\ ~h[S].pending /\ Update(S, spec)
    \/ \E n \in {0, 1} : DeploymentStatus(DeploymentS, n)
    \/ ServerStep(S)
    \/ Delete(S)
    \/ delete_mcpserver(S)
    \/ Removed(S)
    \/ \E ck \in DOMAIN children : Collected(ck)

SpecLeftover == InitLeftover /\ [][NextLeftover]_vars

\* C38: children are never deleted by a reconcile.  While S is in the
\* store no step removes a child; and the Ingress mcp-server-S is changed
\* only by the Ingress write of a pass whose spec sets ingress, so that
\* once the spec of S sets none, the Ingress stays as it is until S is gone.
C38_NeverDeletedStep ==
    S \in DOMAIN objs =>
       /\ DOMAIN children \subseteq DOMAIN children'
       /\ IngressS \in DOMAIN children =>
             \/ children'[IngressS] = children[IngressS]
             \/ h[S].pc = "ingress" /\ The(h[S].spec).ingress # {}
                  /\ children'[IngressS].host = The(The(h[S].spec).ingress).host

C38_NeverDeleted == [][C38_NeverDeletedStep]_vars

\* the spec of S was updated from ingress host b.example to no ingress; a
\* pass with the new spec has completed, and the Ingress is still there
C38_Witness ==
    /\ PassDone(S) /\ h[S].outcome = "ok" /\ ~h[S].pending
    /\ objs[S].spec.ingress = {}
    /\ The(trail[S].last).spec.ingress = {}
    /\ The(trail[S].last).wrote = <<<<"ConfigMap", "update">>, <<"Deployment", "update">>,
                                    <<"Service", "update">>>>
    /\ IngressS \in DOMAIN children
    /\ children[IngressS].host = "b.example"
    /\ children[IngressS].owner = OwnerRef(S)

\* S was deleted and is gone; the collector has removed the Ingress
C38_WitnessCollected ==
    /\ S \notin DOMAIN objs
    /\ IngressS \notin DOMAIN children
    /\ DeploymentS \in DOMAIN children

\* C39: only valid tools are aggregated, as claimed.  Every entry of
\* tools.json has a name, and an MCPTool whose spec fails MCPToolSpec
\* validation (its own pass raises and writes no status) has no entry in
\* the tools.json of S.
C39_OnlyValidTools ==
    ConfigMapS \in DOMAIN children =>
        /\ \A i \in 1..Len(ToolsJson) : ToolsJson[i].name # None
        /\ ~MCPToolSpecValid(objs[T].spec) => ToolsJson = <<>>

(***************************************************************************)
(* SpecAccepted: passes of S over the selectors validation accepts.  The   *)
(* toolSelector of S has matchLabels app=x or none and one or two          *)
(* matchExpressions entries, among them In and NotIn entries without a     *)
(* values field (values is optional in LabelSelectorRequirement); MCPTool  *)
(* T carries one of four label sets.                                       *)
(***************************************************************************)
ExpressionsAccepted ==
    Expressions \cup
    {[key |-> "env", operator |-> "In", values |-> {}],
     [key |-> "env", operator |-> "NotIn", values |-> {}]}

InitAccepted ==
    /\ \E ls \in {{}, Some(<<<<"app", "x">>>>)} :
       \E es \in {<<e>> : e \in ExpressionsAccepted}
                   \cup {<<e, f>> : e \in ExpressionsAccepted, f \in Expressions} :
       \E labels \in LabelSets :
          objs = Put(Put(Empty, S,
                         Stored({}, [ServerSpec({}) EXCEPT
                                        !.toolSelector =
                                           Some([matchLabels |-> ls,
                                                 matchExpressions |-> Some(es)])])),
                     T, Stored(labels, EchoTool))
    /\ h = [k \in DOMAIN objs |-> NewHandler]
    /\ services = {Svc("ns1", "svc")}
    /\ children = Empty
    /\ trail = Put(Empty, S, NewTrail)

NextAccepted == ServerStepNoIngress(S)

SpecAccepted == InitAccepted /\ [][NextAccepted]_vars

\* C40: every accepted selector can be turned into a string, as claimed.
\* A pass of S whose spec MCPServerSpec validation accepts does not end
\* raising, whatever the toolSelector, an In or NotIn entry without values
\* included.
C40_SelectorNeverFails ==
    MCPServerSpecValid(objs[S].spec) => h[S].outcome # "raised"

====
